---- MODULE Spec2Model ----
(***************************************************************************)
(* Request engine (src/core.ts) and error classifier (src/error.ts) of the *)
(* AgentGo Node SDK: one logical call of AgentGoClient._request, with its  *)
(* attempts, timeout timer, response handling, classification and backoff. *)
(***************************************************************************)
EXTENDS Integers, Sequences, FiniteSets, TLC

VARIABLES
    clientMaxRetries,  \* this._maxRetries
    clientTimeout,     \* this._timeout
    optionsRetries,    \* options.retries   (<<>> when undefined, <<v>> otherwise)
    optionsTimeout,    \* options.timeout   (<<>> when undefined, <<v>> otherwise)
    buildThrows,       \* TRUE when _buildURL / JSON.stringify throws for this call's inputs
    pc,                \* position of the call: loop, fetching, handling, sleeping, returned, thrown
    attempt,           \* loop variable of _request
    lastError,         \* lastError of _request
    timer,             \* timeoutId of the running attempt: none, pending, fired, cleared
    aborted,           \* controller.signal.aborted of the running attempt
    response,          \* what fetch resolved with in the running attempt (<<>> if nothing yet)
    rejection,         \* what fetch rejected with in the running attempt (<<>> if nothing)
    classified,        \* what AgentGoError.fromResponse built in the running attempt (<<>> if nothing)
    result,            \* value _request resolved with (<<>> before)
    thrown,            \* value _request rejected with (<<>> before)
    fetchCount,        \* number of calls of fetch made by the call
    sleepCount,        \* number of calls of _sleep made by the call
    sleep,             \* arguments and duration of the _sleep in progress (<<>> if none)
    hist,              \* kinds of failed attempts seen so far in the call
    calls,             \* concurrent calls on one client: the locals of each _request in progress
    signals,           \* the AbortControllers whose signal is aborted
    timers,            \* the timers set by setTimeout: state and the controller each one aborts
    actor,             \* the call whose code or timer callback ran last (0 before any)
    path,              \* path argument of the call, as a sequence of text fragments
    query,             \* options.query: the entries of the object in order (<<>> when undefined)
    url,               \* the URL _buildURL returned in the latest attempt (<<>> before)
    timerDelay,        \* the delay the timer of the latest attempt was set with (<<>> before)
    method,            \* method argument of _request
    optionsHeaders,    \* options.headers  (<<>> when undefined, <<v>> otherwise)
    optionsBody,       \* options.body: the entries of the object in order (<<>> when undefined)
    sent,              \* the requests handed to fetch by the call, one for each attempt
    script,            \* what the transport does in each attempt of two paired calls (<<>> if free)
    earlier,           \* how the calls made earlier on the client went
    ctor,              \* arguments of the constructor: options and process.env.AGENTGO_API_KEY
    client,            \* _apiKey, _baseURL, _defaultHeaders of the client (<<>> when not built)
    ctorThrown,        \* value the constructor threw (<<>> if nothing)
    config,            \* the object a caller got from getConfig (<<>> if none)
    sessionCall,       \* the Sessions method called and its sessionId (<<>> for a direct call)
    sessionOutcome     \* how the Sessions method settled (<<>> before)

\* the state of several concurrent calls, used when calls are interleaved
concurrent == <<calls, signals, timers, actor, script>>

sdk == <<ctor, client, ctorThrown, config, sessionCall, sessionOutcome, earlier>>

vars == <<clientMaxRetries, clientTimeout, optionsRetries, optionsTimeout, buildThrows,
          pc, attempt, lastError, timer, aborted, response, rejection, classified,
          result, thrown, fetchCount, sleepCount, sleep, hist, concurrent, path, query, url,
          timerDelay, method, optionsHeaders, optionsBody, sent, sdk>>

----------------------------------------------------------------------------
(* Bounds of the model *)

MaxBudget == 6          \* largest options.retries tried
MaxRetryAfter == 120    \* largest retryAfter (seconds) a body carries
MaxParams == 2          \* largest number of properties of a query object

(* Program constants *)

DefaultMaxRetries == 3
DefaultTimeout == 30000
MaxDelay == 60000
JitterRange == 1000

Undef == <<>>
Some(v) == <<v>>
IsDef(o) == o # <<>>
Val(o) == o[1]

RECURSIVE Pow2(_)
Pow2(n) == IF n <= 0 THEN 1 ELSE 2 * Pow2(n - 1)

Min(a, b) == IF a <= b THEN a ELSE b

----------------------------------------------------------------------------
(* Values of the program *)

ErrorTypes == {"INVALID_REQUEST", "UNAUTHORIZED", "SESSION_NOT_FOUND", "RATE_LIMIT_EXCEEDED",
               "INTERNAL_SERVER_ERROR", "NETWORK_ERROR", "TIMEOUT_ERROR", "UNKNOWN_ERROR"}

\* new AgentGoError(type, message, status, details, retryAfter)
AgentGoError(type, message, status, details, retryAfter) ==
    [cls |-> "AgentGoError", name |-> "AgentGoError", type |-> type, message |-> message,
     status |-> status, details |-> details, retryAfter |-> retryAfter]

\* a thrown value that is an Error but not an AgentGoError (fetch rejections, TypeError, SyntaxError)
PlainError(name, message) ==
    [cls |-> "Error", name |-> name, type |-> "", message |-> message,
     status |-> Undef, details |-> Undef, retryAfter |-> Undef]

\* a thrown value that is not an Error at all (a string, an object, ...)
NonError(text) ==
    [cls |-> "value", name |-> "", type |-> "", message |-> text,
     status |-> Undef, details |-> Undef, retryAfter |-> Undef]

\* the value null
NullValue ==
    [cls |-> "null", name |-> "", type |-> "", message |-> <<>>,
     status |-> Undef, details |-> Undef, retryAfter |-> Undef]

\* error instanceof Error
InstanceOfError(error) == error.cls \in {"AgentGoError", "Error"}

\* error instanceof AgentGoError
InstanceOfAgentGoError(error) == error.cls = "AgentGoError"

\* String(error): "<name>: <message>" for an Error, the text of any other value
StringOf(error) ==
    CASE error.cls = "null" -> <<"null">>
      [] InstanceOfError(error) -> <<error.name, ": ">> \o error.message
      [] OTHER -> error.message

\* text `sub` occurs in text `msg` (texts are sequences of fragments)
Contains(msg, sub) ==
    \E i \in 1..(Len(msg) - Len(sub) + 1) : SubSeq(msg, i, i + Len(sub) - 1) = sub

----------------------------------------------------------------------------
(* src/error.ts *)

networkError(message) == AgentGoError("NETWORK_ERROR", message, Undef, Undef, Undef)

timeoutError(message) == AgentGoError("TIMEOUT_ERROR", message, Undef, Undef, Undef)

StatusMessage(status) ==
    CASE status = 400 -> <<"Invalid request parameters">>
      [] status = 401 -> <<"Invalid or missing API key">>
      [] status = 404 -> <<"Resource not found">>
      [] status = 429 -> <<"API rate limit exceeded">>
      [] status \in {500, 502, 503, 504} -> <<"Internal server error">>
      [] OTHER -> <<"HTTP ", ToString(status), ": ", "statusText">>

\* variant: 504 is missing from the case list
StatusType_No504(status) ==
    CASE status = 400 -> "INVALID_REQUEST"
      [] status = 401 -> "UNAUTHORIZED"
      [] status = 404 -> "SESSION_NOT_FOUND"
      [] status = 429 -> "RATE_LIMIT_EXCEEDED"
      [] status \in {500, 502, 503} -> "INTERNAL_SERVER_ERROR"
      [] OTHER -> "UNKNOWN_ERROR"

StatusType(status) ==
    CASE status = 400 -> "INVALID_REQUEST"
      [] status = 401 -> "UNAUTHORIZED"
      [] status = 404 -> "SESSION_NOT_FOUND"
      [] status = 429 -> "RATE_LIMIT_EXCEEDED"
      [] status \in {500, 502, 503, 504} -> "INTERNAL_SERVER_ERROR"
      [] OTHER -> "UNKNOWN_ERROR"

\* variant: the status switch is consulted before the body
fromResponse_StatusFirst(resp, responseBody) ==
    IF IsDef(responseBody) /\ Val(responseBody).error # "" /\ StatusType(resp.status) = "UNKNOWN_ERROR"
    THEN AgentGoError(Val(responseBody).error, Val(responseBody).message, Some(resp.status),
                      Val(responseBody).details, Val(responseBody).retryAfter)
    ELSE AgentGoError(StatusType(resp.status), StatusMessage(resp.status), Some(resp.status),
                      Undef, Undef)

\* AgentGoError.fromResponse(response, responseBody); responseBody is <<>> when undefined
fromResponse(resp, responseBody) ==
    IF IsDef(responseBody) /\ Val(responseBody).error # ""
    THEN AgentGoError(Val(responseBody).error, Val(responseBody).message, Some(resp.status),
                      Val(responseBody).details, Val(responseBody).retryAfter)
    ELSE AgentGoError(StatusType(resp.status), StatusMessage(resp.status), Some(resp.status),
                      Undef, Undef)

\* variant: TIMEOUT_ERROR is left out of the retryable kinds
isRetryable_NoTimeout(e) ==
    e.type \in {"RATE_LIMIT_EXCEEDED", "INTERNAL_SERVER_ERROR", "NETWORK_ERROR"}

isRetryable(e) ==
    e.type \in {"RATE_LIMIT_EXCEEDED", "INTERNAL_SERVER_ERROR", "NETWORK_ERROR", "TIMEOUT_ERROR"}

\* if (this.retryAfter) is false for undefined and for 0
getRetryDelay(e) ==
    IF IsDef(e.retryAfter) /\ Val(e.retryAfter) # 0
    THEN Val(e.retryAfter) * 1000
    ELSE CASE e.type = "RATE_LIMIT_EXCEEDED" -> 60000
           [] e.type = "INTERNAL_SERVER_ERROR" -> 5000
           [] e.type = "NETWORK_ERROR" -> 1000
           [] e.type = "TIMEOUT_ERROR" -> 2000
           [] OTHER -> 1000

----------------------------------------------------------------------------
(* src/core.ts *)

\* variant: options.retries || this._maxRetries (a budget of 0 falls back to the client's)
maxRetries_Or ==
    IF IsDef(optionsRetries) /\ Val(optionsRetries) # 0 THEN Val(optionsRetries)
    ELSE clientMaxRetries

\* const maxRetries = options.retries ?? this._maxRetries
maxRetries == IF IsDef(optionsRetries) THEN Val(optionsRetries) ELSE clientMaxRetries

\* variant: options.timeout is ignored
timeout_ClientOnly == clientTimeout

\* const timeout = options.timeout ?? this._timeout
timeout == IF IsDef(optionsTimeout) THEN Val(optionsTimeout) ELSE clientTimeout

\* variant: Math.pow(attempt, 2) in place of Math.pow(2, attempt)
_getRetryDelay_PowSwapped(n, error, jitter) ==
    Min(getRetryDelay(error) * (n * n) + jitter, MaxDelay)

\* variant: the Math.min(..., 60000) clamp is missing
_getRetryDelay_NoClamp(n, error, jitter) ==
    getRetryDelay(error) * Pow2(n) + jitter

\* _getRetryDelay(attempt, error); jitter stands for Math.random() * 1000
_getRetryDelay(n, error, jitter) ==
    Min(getRetryDelay(error) * Pow2(n) + jitter, MaxDelay)

\* variant: an AgentGoError caught from _handleResponse is rethrown as it is
MakeRequestCatch_Propagate(error) ==
    IF InstanceOfAgentGoError(error) THEN error
    ELSE IF InstanceOfError(error) /\ error.name = "AbortError"
    THEN timeoutError(<<"Request timed out after ", ToString(timeout), "ms">>)
    ELSE networkError(<<"Network request failed: ">> \o
                      (IF InstanceOfError(error) THEN error.message ELSE StringOf(error)))

\* variant: every caught Error counts as a timeout, whatever its name
MakeRequestCatch_NameUnchecked(error) ==
    IF InstanceOfError(error)
    THEN timeoutError(<<"Request timed out after ", ToString(timeout), "ms">>)
    ELSE networkError(<<"Network request failed: ">> \o StringOf(error))

\* the catch block of _makeRequest: what the attempt throws for a caught value
MakeRequestCatch(error) ==
    IF InstanceOfError(error) /\ error.name = "AbortError"
    THEN timeoutError(<<"Request timed out after ", ToString(timeout), "ms">>)
    ELSE networkError(<<"Network request failed: ">> \o
                      (IF InstanceOfError(error) THEN error.message ELSE StringOf(error)))

\* the first statement of the catch block of _request
RequestCatch(error) ==
    IF InstanceOfAgentGoError(error) THEN error ELSE networkError(StringOf(error))

----------------------------------------------------------------------------
(* What the transport (fetch) can answer *)

Statuses == {200, 400, 401, 404, 418, 429, 500}

\* response.ok
Ok(resp) == resp.status >= 200 /\ resp.status <= 299

RetryAfterValues == {Undef, Some(0), Some(30), Some(MaxRetryAfter)}

\* a parsed body: error "" stands for a body without a (truthy) error field
NoBody == [error |-> "", message |-> <<>>, details |-> Undef, retryAfter |-> Undef]

\* what a success body decodes to: a session object
RunningSession == [id |-> "session-123", status |-> "RUNNING"]

SessionPayloads == {RunningSession, [id |-> "session-123", status |-> "COMPLETED"]}

\* the payload of a response that carries no session
NoPayload == [id |-> "", status |-> ""]

ErrorBodies ==
    [error : {"RATE_LIMIT_EXCEEDED"}, message : {<<"Too many requests">>},
     details : {Undef}, retryAfter : RetryAfterValues]
    \cup [error : {"INVALID_REQUEST", "NETWORK_ERROR", "TIMEOUT_ERROR", "QUOTA_EXCEEDED"},
          message : {<<"Bad input">>}, details : {Some("field")}, retryAfter : {Undef}]

\* status, content type, whether json()/text() resolves, the parsed error body, the payload
Responses ==
    [status : {200}, isJson : BOOLEAN, decodeOK : BOOLEAN, body : {NoBody},
     payload : SessionPayloads]
    \cup [status : Statuses \ {200}, isJson : {FALSE}, decodeOK : {TRUE}, body : {NoBody},
          payload : {NoPayload}]
    \cup [status : Statuses \ {200}, isJson : {TRUE}, decodeOK : {FALSE}, body : {NoBody},
          payload : {NoPayload}]
    \cup [status : Statuses \ {200}, isJson : {TRUE}, decodeOK : {TRUE},
          body : ErrorBodies \cup {NoBody}, payload : {NoPayload}]

\* values fetch rejects with when the signal has not aborted it
Rejections == {PlainError("TypeError", <<"fetch failed">>), NonError(<<"boom">>)}

\* value fetch rejects with when the signal aborts it
AbortError == PlainError("AbortError", <<"This operation was aborted">>)

\* value thrown by new URL(...) / JSON.stringify(...) before the try block of _makeRequest
BuildError == PlainError("TypeError", <<"Invalid URL">>)

\* value thrown by response.json() / response.text()
DecodeError == PlainError("SyntaxError", <<"Unexpected token">>)

Jitters == {0, JitterRange - 1}

\* variant: the timer is not cleared
clearTimeout_Missing(t) == t

\* clearTimeout(timeoutId)
clearTimeout(t) == IF t = "pending" THEN "cleared" ELSE t

----------------------------------------------------------------------------
(* _handleResponse *)

\* errorBody of _handleResponse: parsed only for JSON content, undefined when parsing throws
errorBody(resp) == IF resp.isJson /\ resp.decodeOK THEN Some(resp.body) ELSE Undef

\* variant: a body that cannot be decoded is handed back without an error
HandleThrows_DecodeIgnored(resp) == ~Ok(resp)

\* does _handleResponse throw, and what
HandleThrows(resp) == ~Ok(resp) \/ ~resp.decodeOK

HandleThrown(resp) ==
    IF ~Ok(resp) THEN fromResponse(resp, errorBody(resp)) ELSE DecodeError

\* value _handleResponse resolves with: response.json() or response.text()
HandleValue(resp) ==
    [kind |-> IF resp.isJson THEN "json" ELSE "text", data |-> resp.payload]

\* how a response is recorded in hist: by the retryability of its classification
ResponseOutcome(resp) ==
    CASE Ok(resp) /\ resp.decodeOK -> {}
      [] Ok(resp) /\ ~resp.decodeOK -> {"decode_failure"}
      [] ~Ok(resp) /\ isRetryable(fromResponse(resp, errorBody(resp))) -> {"retryable"}
      [] OTHER -> {"nonretryable"}

----------------------------------------------------------------------------
(* The constructor of AgentGoClient, and getConfig *)

DefaultBaseURL == "https://session.browsers.live"

\* { ...a, ...b }: the properties of b override those of a
Spread(a, b) == [k \in DOMAIN a \cup DOMAIN b |-> IF k \in DOMAIN b THEN b[k] ELSE a[k]]

\* variant: the environment variable is consulted first
apiKeyOf_EnvFirst(c) ==
    IF IsDef(c.env) THEN Val(c.env)
    ELSE IF IsDef(c.options.apiKey) THEN Val(c.options.apiKey)
    ELSE ""

\* options.apiKey ?? process.env.AGENTGO_API_KEY ?? ''
apiKeyOf(c) ==
    IF IsDef(c.options.apiKey) THEN Val(c.options.apiKey)
    ELSE IF IsDef(c.env) THEN Val(c.env)
    ELSE ""

\* if (!this._apiKey) throw new AgentGoError('UNAUTHORIZED', ...)
ConstructorThrows(c) == apiKeyOf(c) = ""

ApiKeyRequired ==
    AgentGoError("UNAUTHORIZED",
                 <<"API key is required. Provide it via constructor options or ",
                   "AGENTGO_API_KEY environment variable.">>, Undef, Undef, Undef)

\* options.baseURL ?? 'https://session.browsers.live'
baseURLOf(c) == IF IsDef(c.options.baseURL) THEN Val(c.options.baseURL) ELSE DefaultBaseURL

\* options.timeout ?? 30000
timeoutOf(c) == IF IsDef(c.options.timeout) THEN Val(c.options.timeout) ELSE DefaultTimeout

\* options.maxRetries ?? 3
maxRetriesOf(c) ==
    IF IsDef(c.options.maxRetries) THEN Val(c.options.maxRetries) ELSE DefaultMaxRetries

\* the three built-in headers, overridden by options.defaultHeaders
defaultHeadersOf(c) ==
    Spread([k \in {"Content-Type", "x-api-key", "User-Agent"} |->
               CASE k = "Content-Type" -> "application/json"
                 [] k = "x-api-key" -> apiKeyOf(c)
                 [] k = "User-Agent" -> "agentgo-node/1.0.1"],
           IF IsDef(c.options.defaultHeaders) THEN Val(c.options.defaultHeaders) ELSE <<>>)

\* the private fields the constructor sets besides _timeout and _maxRetries
ClientOf(c) ==
    [apiKey |-> apiKeyOf(c), baseURL |-> baseURLOf(c), defaultHeaders |-> defaultHeadersOf(c)]

\* variant: the object is returned without being frozen
freeze_Missing(o) == o

\* Object.freeze(o)
freeze(o) == [o EXCEPT !.frozen = TRUE]

\* getConfig(): a frozen object literal of _baseURL, _timeout and _maxRetries
getConfig ==
    freeze([baseURL |-> Val(client).baseURL, timeout |-> clientTimeout,
            maxRetries |-> clientMaxRetries, frozen |-> FALSE])

\* a client built with an API key and the timeout and maxRetries the call runs with
BuiltClient ==
    /\ ctor = [options |-> [apiKey |-> Some("test-api-key"), baseURL |-> Undef,
                            timeout |-> Some(clientTimeout),
                            maxRetries |-> Some(clientMaxRetries),
                            defaultHeaders |-> Undef],
               env |-> Undef]
    /\ client = Some(ClientOf(ctor))
    /\ ctorThrown = Undef
    /\ config = Undef
    /\ earlier = {}

\* a call made on the client directly, not through a Sessions method
DirectClient ==
    /\ BuiltClient
    /\ sessionCall = Undef
    /\ sessionOutcome = Undef

----------------------------------------------------------------------------
(* _request *)

\* no concurrent calls are modelled
NoCalls ==
    /\ calls = <<>>
    /\ signals = {}
    /\ timers = <<>>
    /\ actor = 0
    /\ script = Undef


\* JavaScript values a query parameter can hold: undefined, a boolean, a number or a string
JSUndefined == [t |-> "undefined", b |-> FALSE, n |-> 0, s |-> ""]
JSNull == [t |-> "null", b |-> FALSE, n |-> 0, s |-> ""]
JSBoolean(b) == [t |-> "boolean", b |-> b, n |-> 0, s |-> ""]
JSNumber(n) == [t |-> "number", b |-> FALSE, n |-> n, s |-> ""]
JSString(s) == [t |-> "string", b |-> FALSE, n |-> 0, s |-> s]

\* String(value)
StringOfValue(value) ==
    CASE value.t = "undefined" -> "undefined"
      [] value.t = "null" -> "null"
      [] value.t = "boolean" -> IF value.b THEN "true" ELSE "false"
      [] value.t = "number" -> ToString(value.n)
      [] value.t = "string" -> value.s

\* truthiness of a value
Truthy(value) ==
    CASE value.t = "undefined" -> FALSE
      [] value.t = "null" -> FALSE
      [] value.t = "boolean" -> value.b
      [] value.t = "number" -> value.n # 0
      [] value.t = "string" -> value.s # ""

\* variant: the entries are filtered by truthiness, if (value)
RECURSIVE searchParams_Truthy(_)
searchParams_Truthy(entries) ==
    IF entries = <<>> THEN <<>>
    ELSE LET key == Head(entries).key
             value == Head(entries).value
         IN  (IF Truthy(value) THEN <<[key |-> key, value |-> StringOfValue(value)]>> ELSE <<>>)
             \o searchParams_Truthy(Tail(entries))

\* for (const [key, value] of Object.entries(query))
\*     if (value !== undefined) url.searchParams.append(key, String(value))
RECURSIVE searchParams(_)
searchParams(entries) ==
    IF entries = <<>> THEN <<>>
    ELSE LET key == Head(entries).key
             value == Head(entries).value
         IN  (IF value # JSUndefined
              THEN <<[key |-> key, value |-> StringOfValue(value)]>> ELSE <<>>)
             \o searchParams(Tail(entries))

\* the application/x-www-form-urlencoded form of a name or value: a space becomes "+"
FormEncode(s) == IF s = "a b" THEN "a+b" ELSE s

\* serialization of url.searchParams: name=value pairs joined by "&"
RECURSIVE SerializeParams(_)
SerializeParams(params) ==
    IF params = <<>> THEN <<>>
    ELSE <<FormEncode(Head(params).key), "=", FormEncode(Head(params).value)>>
         \o (IF Tail(params) = <<>> THEN <<>> ELSE <<"&">> \o SerializeParams(Tail(params)))

\* _buildURL(path, query): the text url.toString() returns, as a sequence of fragments
_buildURL(p, q) ==
    LET pathname == IF p # <<>> /\ Head(p) = "/" THEN p ELSE <<"/">> \o p
        params == IF IsDef(q) THEN searchParams(Val(q)) ELSE <<>>
    IN  <<Val(client).baseURL>> \o pathname
        \o (IF params = <<>> THEN <<>> ELSE <<"?">> \o SerializeParams(params))

\* the request of a call: the sessions path, and a query with one defined and one
\* undefined parameter
SessionsPath == <<"/", "api/v1/sessions">>

ListQuery ==
    <<[key |-> "limit", value |-> JSNumber(20)], [key |-> "status", value |-> JSUndefined]>>

\* JSON.stringify of a property value
JSONValue(value) ==
    IF value.t = "string" THEN <<"\"", value.s, "\"">> ELSE <<StringOfValue(value)>>

\* the members JSON.stringify writes for the entries of an object: a property whose value
\* is undefined is left out
RECURSIVE JSONMembers(_)
JSONMembers(entries) ==
    IF entries = <<>> THEN <<>>
    ELSE LET rest == JSONMembers(Tail(entries))
         IN  IF Head(entries).value = JSUndefined THEN rest
             ELSE <<"\"", Head(entries).key, "\"", ":">> \o JSONValue(Head(entries).value)
                  \o (IF rest = <<>> THEN <<>> ELSE <<",">> \o rest)

\* JSON.stringify(object), as a sequence of text fragments
JSONStringify(entries) == <<"{">> \o JSONMembers(entries) \o <<"}">>

\* variant: the client's default headers override the headers of the request
headers_DefaultsWin ==
    Spread(IF IsDef(optionsHeaders) THEN Val(optionsHeaders) ELSE <<>>,
           Val(client).defaultHeaders)

\* const headers = { ...this._defaultHeaders, ...options.headers }
headers ==
    Spread(Val(client).defaultHeaders, IF IsDef(optionsHeaders) THEN Val(optionsHeaders) ELSE <<>>)

\* const body = options.body ? JSON.stringify(options.body) : undefined
body == IF IsDef(optionsBody) THEN Some(JSONStringify(Val(optionsBody))) ELSE Undef

\* the url and the fetchOptions fetch is called with, without the signal; body is absent
\* (<<>>) when the local body is undefined
fetchOptions ==
    [url |-> _buildURL(path, query), method |-> method, headers |-> headers, body |-> body]

\* a request without headers and body of its own
GetRequest ==
    /\ method = "GET"
    /\ optionsHeaders = Undef
    /\ optionsBody = Undef

CreateBody ==
    <<[key |-> "region", value |-> JSString("US")],
      [key |-> "keepAlive", value |-> JSUndefined],
      [key |-> "timeout", value |-> JSNumber(30)]>>

RequestHeaders == [k \in {"User-Agent", "X-Request-Id"} |-> "per-request"]

\* a request with a method other than GET, headers of its own and a body
CreateRequest ==
    /\ method = "POST"
    /\ optionsHeaders = Some(RequestHeaders)
    /\ optionsBody = Some(CreateBody)

NoRequestYet ==
    /\ url = Undef
    /\ sent = <<>>

OneRequest ==
    /\ path = SessionsPath
    /\ query = Some(ListQuery)
    /\ GetRequest
    /\ NoRequestYet

Init ==
    /\ \/ clientMaxRetries \in {-1, 0, 1, DefaultMaxRetries} /\ optionsRetries = Undef
       \/ clientMaxRetries = DefaultMaxRetries
          /\ optionsRetries \in {Some(r) : r \in (-1)..MaxBudget}
    /\ clientTimeout = DefaultTimeout
    /\ optionsTimeout \in {Undef, Some(50)}
    /\ buildThrows \in BOOLEAN
    /\ pc = "loop"
    /\ attempt = 0
    /\ lastError = NullValue
    /\ timer = "none"
    /\ timerDelay = Undef
    /\ aborted = FALSE
    /\ response = Undef
    /\ rejection = Undef
    /\ classified = Undef
    /\ result = Undef
    /\ thrown = Undef
    /\ fetchCount = 0
    /\ sleepCount = 0
    /\ sleep = Undef
    /\ hist = {}
    /\ DirectClient
    /\ path = SessionsPath
    /\ query = Some(ListQuery)
    /\ GetRequest \/ CreateRequest
    /\ NoRequestYet
    /\ NoCalls

inputs == <<clientMaxRetries, clientTimeout, optionsRetries, optionsTimeout, buildThrows,
            path, query, method, optionsHeaders, optionsBody>>

\* const delay = this._getRetryDelay(attempt, lastError); await this._sleep(delay)
Backoff(e) ==
    \E jitter \in Jitters :
        /\ pc' = "sleeping"
        /\ sleepCount' = sleepCount + 1
        /\ sleep' = Some([n |-> attempt, jitter |-> jitter,
                          ms |-> _getRetryDelay(attempt, e, jitter)])

\* variant: the catch block does not compare attempt with maxRetries
Caught_BudgetUnchecked(error) ==
    LET e == RequestCatch(error) IN
    /\ lastError' = e
    /\ IF ~isRetryable(e)
       THEN /\ pc' = "thrown"
            /\ thrown' = Some(e)
            /\ UNCHANGED <<sleepCount, sleep>>
       ELSE /\ Backoff(e)
            /\ UNCHANGED thrown

\* the catch block of _request, entered with the value _makeRequest threw
Caught(error) ==
    LET e == RequestCatch(error) IN
    /\ lastError' = e
    /\ IF attempt = maxRetries \/ ~isRetryable(e)
       THEN /\ pc' = "thrown"
            /\ thrown' = Some(e)
            /\ UNCHANGED <<sleepCount, sleep>>
       ELSE /\ Backoff(e)
            /\ UNCHANGED thrown

\* variant: the backoff sleep is not awaited, the next attempt starts while it is pending
StartAttempt_SleepNotAwaited ==
    /\ pc \in {"loop", "sleeping"}
    /\ attempt' = (IF pc = "sleeping" THEN attempt + 1 ELSE attempt)
    /\ attempt' <= maxRetries
    /\ ~buildThrows
    /\ pc' = "fetching"
    /\ timer' = "pending"
    /\ aborted' = FALSE
    /\ fetchCount' = fetchCount + 1
    /\ url' = Some(_buildURL(path, query))
    /\ sent' = Append(sent, fetchOptions)
    /\ timerDelay' = Some(timeout)
    /\ UNCHANGED <<inputs, concurrent, sdk, lastError, response, rejection, classified,
                   result, thrown, sleepCount, sleep, hist>>

\* variant: one deadline for the whole call, a retry gets the time that is left
StartAttempt_TimeoutDeducted ==
    /\ pc = "loop"
    /\ attempt <= maxRetries
    /\ ~buildThrows
    /\ pc' = "fetching"
    /\ timer' = "pending"
    /\ aborted' = FALSE
    /\ fetchCount' = fetchCount + 1
    /\ url' = Some(_buildURL(path, query))
    /\ sent' = Append(sent, fetchOptions)
    /\ timerDelay' = Some(timeout \div Pow2(attempt))
    /\ UNCHANGED <<inputs, concurrent, sdk, attempt, lastError, response, rejection, classified,
                   result, thrown, sleepCount, sleep, hist>>

\* loop condition true; _makeRequest builds the request, arms the timer and calls fetch
StartAttempt ==
    /\ pc = "loop"
    /\ attempt <= maxRetries
    /\ ~buildThrows
    /\ pc' = "fetching"
    /\ timer' = "pending"
    /\ aborted' = FALSE
    /\ fetchCount' = fetchCount + 1
    /\ url' = Some(_buildURL(path, query))
    /\ sent' = Append(sent, fetchOptions)
    /\ timerDelay' = Some(timeout)
    /\ UNCHANGED <<inputs, concurrent, sdk, attempt, lastError, response, rejection, classified,
                   result, thrown, sleepCount, sleep, hist>>

\* loop condition true; _buildURL or JSON.stringify throws before the timer exists
BuildFails ==
    /\ pc = "loop"
    /\ attempt <= maxRetries
    /\ buildThrows
    /\ Caught(BuildError)
    /\ UNCHANGED <<inputs, concurrent, sdk, url, sent, timerDelay, attempt, timer, aborted, response, rejection, classified, result,
                   fetchCount, hist>>

\* loop condition false: throw lastError after the loop
LoopExit ==
    /\ pc = "loop"
    /\ attempt > maxRetries
    /\ pc' = "thrown"
    /\ thrown' = Some(lastError)
    /\ UNCHANGED <<inputs, concurrent, sdk, url, sent, timerDelay, attempt, lastError, timer, aborted, response, rejection, classified,
                   result, fetchCount, sleepCount, sleep, hist>>

\* the timeout callback runs, as it does whenever its timer was not cleared: controller.abort()
TimerFires ==
    /\ timer = "pending"
    /\ timer' = "fired"
    /\ aborted' = TRUE
    /\ UNCHANGED <<inputs, concurrent, sdk, url, sent, timerDelay, pc, attempt, lastError, response, rejection, classified, result,
                   thrown, fetchCount, sleepCount, sleep, hist>>

\* variant: the timer is cleared only after _handleResponse has read the body
TransportReturns_TimerKept ==
    /\ pc = "fetching"
    /\ \E resp \in Responses : response' = Some(resp)
    /\ timer' = timer
    /\ pc' = "handling"
    /\ UNCHANGED <<inputs, concurrent, sdk, url, sent, timerDelay, attempt, lastError, aborted, rejection, classified, result, thrown,
                   fetchCount, sleepCount, sleep, hist>>

\* fetch resolves with a response; clearTimeout runs before _handleResponse
TransportReturns ==
    /\ pc = "fetching"
    /\ \E resp \in Responses : response' = Some(resp)
    /\ timer' = clearTimeout(timer)
    /\ pc' = "handling"
    /\ UNCHANGED <<inputs, concurrent, sdk, url, sent, timerDelay, attempt, lastError, aborted, rejection, classified, result, thrown,
                   fetchCount, sleepCount, sleep, hist>>

\* fetch rejects; the catch block of _makeRequest clears the timer and classifies
TransportRejects ==
    /\ pc = "fetching"
    /\ \E err \in (IF aborted THEN Rejections \cup {AbortError} ELSE Rejections) :
         /\ rejection' = Some(err)
         /\ hist' = hist \cup {"retryable"}
         /\ Caught(MakeRequestCatch(err))
    /\ timer' = clearTimeout(timer)
    /\ UNCHANGED <<inputs, concurrent, sdk, url, sent, timerDelay, attempt, aborted, response, classified, result, fetchCount>>

\* _handleResponse settles: a value is returned, or what it throws goes through both catch blocks
HandleResponse ==
    /\ pc = "handling"
    /\ LET resp == Val(response) IN
       /\ hist' = hist \cup ResponseOutcome(resp)
       /\ classified' = IF ~Ok(resp) THEN Some(fromResponse(resp, errorBody(resp))) ELSE Undef
       /\ IF HandleThrows(resp)
          THEN /\ Caught(MakeRequestCatch(HandleThrown(resp)))
               /\ UNCHANGED result
          ELSE /\ pc' = "returned"
               /\ result' = Some(HandleValue(resp))
               /\ UNCHANGED <<lastError, thrown, sleepCount, sleep>>
    /\ timer' = clearTimeout(timer)
    /\ UNCHANGED <<inputs, concurrent, sdk, url, sent, timerDelay, attempt, aborted, response, rejection, fetchCount>>

\* the timer of _sleep fires; attempt++
SleepDone ==
    /\ pc = "sleeping"
    /\ pc' = "loop"
    /\ attempt' = attempt + 1
    /\ sleep' = Undef
    /\ response' = Undef
    /\ rejection' = Undef
    /\ classified' = Undef
    /\ UNCHANGED <<inputs, concurrent, sdk, url, sent, timerDelay, lastError, timer, aborted, result, thrown, fetchCount, sleepCount,
                   hist>>

Next ==
    \/ StartAttempt
    \/ BuildFails
    \/ LoopExit
    \/ TimerFires
    \/ TransportReturns
    \/ TransportRejects
    \/ HandleResponse
    \/ SleepDone

Spec == Init /\ [][Next]_vars

----------------------------------------------------------------------------
(* The call under the scheduling of the runtime: code that can run does run,   *)
(* a pending timer fires unless it is cleared first, and the transport         *)
(* settles every call. Nothing makes the read of a response body settle.       *)

\* the synchronous code of _request and _makeRequest up to the next await
CodeRuns == StartAttempt \/ BuildFails \/ LoopExit

\* the callbacks of setTimeout: the timeout of an attempt and the end of a sleep
TimersFire == TimerFires \/ SleepDone

\* the promise fetch returned settles
TransportSettles == TransportReturns \/ TransportRejects

\* calls with no budget at all, with budget 0 and with budget 2, on a client with defaults
InitLive ==
    /\ clientMaxRetries \in {-1, 0, 2}
    /\ clientTimeout = DefaultTimeout
    /\ optionsRetries = Undef
    /\ optionsTimeout = Undef
    /\ buildThrows \in BOOLEAN
    /\ pc = "loop"
    /\ attempt = 0
    /\ lastError = NullValue
    /\ timer = "none"
    /\ timerDelay = Undef
    /\ aborted = FALSE
    /\ response = Undef
    /\ rejection = Undef
    /\ classified = Undef
    /\ result = Undef
    /\ thrown = Undef
    /\ fetchCount = 0
    /\ sleepCount = 0
    /\ sleep = Undef
    /\ hist = {}
    /\ DirectClient
    /\ OneRequest
    /\ NoCalls

SpecLive ==
    /\ InitLive
    /\ [][Next]_vars
    /\ WF_vars(CodeRuns)
    /\ WF_vars(TimersFire)
    /\ WF_vars(TransportSettles)

----------------------------------------------------------------------------
(* The backoff computation on its own: _getRetryDelay applied to any error   *)
(* value and any attempt index, as the catch block of _request applies it.   *)

ErrorValues ==
    {AgentGoError(t, <<"message">>, st, Undef, ra) :
        t \in ErrorTypes, st \in {Undef, Some(429)}, ra \in RetryAfterValues}

InitBackoff ==
    /\ clientMaxRetries = MaxBudget + 1
    /\ clientTimeout = DefaultTimeout
    /\ optionsRetries = Undef
    /\ optionsTimeout = Undef
    /\ buildThrows = FALSE
    /\ pc = "caught"
    /\ attempt \in 0..MaxBudget
    /\ lastError \in ErrorValues
    /\ timer = "cleared"
    /\ timerDelay = Some(DefaultTimeout)
    /\ aborted = FALSE
    /\ response = Undef
    /\ rejection = Undef
    /\ classified = Undef
    /\ result = Undef
    /\ thrown = Undef
    /\ fetchCount = attempt + 1
    /\ sleepCount = attempt
    /\ sleep = Undef
    /\ hist = {}
    /\ DirectClient
    /\ OneRequest
    /\ NoCalls

ComputeDelay ==
    /\ pc = "caught"
    /\ Backoff(lastError)
    /\ UNCHANGED <<inputs, concurrent, sdk, url, sent, timerDelay, attempt, lastError, timer, aborted, response, rejection, classified,
                   result, thrown, fetchCount, hist>>

NextBackoff == ComputeDelay

SpecBackoff == InitBackoff /\ [][NextBackoff]_vars

----------------------------------------------------------------------------
(* The classifier on its own: AgentGoError.fromResponse applied to any status *)
(* and any error body, as _handleResponse applies it.                         *)

ClassifyStatuses == {400, 401, 403, 404, 418, 429, 500, 502, 503, 504}

ClassifyBodies ==
    [error : ErrorTypes \cup {"QUOTA_EXCEEDED"}, message : {<<"Invalid API key">>},
     details : {Undef, Some("apiKey")}, retryAfter : RetryAfterValues]

ClassifyResponses ==
    [status : ClassifyStatuses, isJson : BOOLEAN, decodeOK : BOOLEAN,
     body : ClassifyBodies \cup {NoBody}, payload : {NoPayload}]

InitClassify ==
    /\ clientMaxRetries = DefaultMaxRetries
    /\ clientTimeout = DefaultTimeout
    /\ optionsRetries = Undef
    /\ optionsTimeout = Undef
    /\ buildThrows = FALSE
    /\ pc = "handling"
    /\ attempt = 0
    /\ lastError = NullValue
    /\ timer = "cleared"
    /\ timerDelay = Some(DefaultTimeout)
    /\ aborted = FALSE
    /\ response \in {Some(r) : r \in ClassifyResponses}
    /\ rejection = Undef
    /\ classified = Undef
    /\ result = Undef
    /\ thrown = Undef
    /\ fetchCount = 1
    /\ sleepCount = 0
    /\ sleep = Undef
    /\ hist = {}
    /\ DirectClient
    /\ OneRequest
    /\ NoCalls

\* throw AgentGoError.fromResponse(response, errorBody)
Classify ==
    /\ pc = "handling"
    /\ classified' = Some(fromResponse(Val(response), errorBody(Val(response))))
    /\ pc' = "classified"
    /\ UNCHANGED <<inputs, concurrent, sdk, url, sent, timerDelay, attempt, lastError, timer, aborted, response, rejection, result,
                   thrown, fetchCount, sleepCount, sleep, hist>>

NextClassify == Classify

SpecClassify == InitClassify /\ [][NextClassify]_vars

----------------------------------------------------------------------------
(* Concurrent calls on one client: each call runs _request with its own       *)
(* locals; AbortControllers and timers are objects of the shared runtime.     *)

MaxConcBudget == 1      \* largest retry budget of a concurrent call

CallIds == {1, 2}

AttemptIds == CallIds \X (0..MaxConcBudget)

ConcResponses ==
    { [status |-> 200, isJson |-> TRUE, decodeOK |-> TRUE, body |-> NoBody,
       payload |-> RunningSession],
      [status |-> 400, isJson |-> FALSE, decodeOK |-> TRUE, body |-> NoBody, payload |-> NoPayload],
      [status |-> 500, isJson |-> FALSE, decodeOK |-> TRUE, body |-> NoBody, payload |-> NoPayload] }

\* variant: one AbortController is kept on the client and used by every attempt
newController_Shared(c, n) == <<0, 0>>

\* const controller = new AbortController(): a fresh object for attempt n of call c
newController(c, n) == <<c, n>>

\* the locals of a call entering _request with retry budget b
NewCall(b) ==
    [pc |-> "loop", attempt |-> 0, maxRetries |-> b, lastError |-> NullValue,
     controller |-> Undef, timeoutId |-> Undef, response |-> Undef, result |-> Undef,
     thrown |-> Undef, fetchCount |-> 0, sleepCount |-> 0, sleep |-> Undef, method |-> "GET"]

InitConcurrent ==
    /\ clientMaxRetries = DefaultMaxRetries
    /\ clientTimeout = DefaultTimeout
    /\ optionsRetries = Undef
    /\ optionsTimeout = Undef
    /\ buildThrows = FALSE
    /\ pc = "loop"
    /\ attempt = 0
    /\ lastError = NullValue
    /\ timer = "none"
    /\ timerDelay = Undef
    /\ aborted = FALSE
    /\ response = Undef
    /\ rejection = Undef
    /\ classified = Undef
    /\ result = Undef
    /\ thrown = Undef
    /\ fetchCount = 0
    /\ sleepCount = 0
    /\ sleep = Undef
    /\ hist = {}
    /\ DirectClient
    /\ OneRequest
    /\ calls \in [CallIds -> {NewCall(b) : b \in (-1)..MaxConcBudget}]
    /\ signals = {}
    /\ timers = [t \in AttemptIds |-> [state |-> "unset", controller |-> <<0, 0>>, owner |-> 0]]
    /\ actor = 0
    /\ script = Undef

single == <<inputs, pc, attempt, lastError, timer, aborted, response, rejection, classified,
            result, thrown, fetchCount, sleepCount, sleep, hist, url, sent, timerDelay, sdk,
            script>>

\* what the transport does in the attempt call record r is in, when a script is given
Scripted(r) == Val(script).steps[r.attempt]

\* a scripted timeout has happened before the transport settles
Due(r) == Scripted(r).fires => Val(r.controller) \in signals

\* the responses fetch can resolve with now in the attempt of call record r
ResponsesNow(r) ==
    IF script = Undef THEN ConcResponses
    ELSE IF Scripted(r).returns /\ Due(r) THEN {Scripted(r).response}
    ELSE {}

\* the values fetch can reject with now in the attempt of call record r
RejectionsNow(r) ==
    IF script = Undef
    THEN IF Val(r.controller) \in signals THEN Rejections \cup {AbortError} ELSE Rejections
    ELSE IF ~Scripted(r).returns /\ Due(r) THEN {Scripted(r).rejection}
    ELSE {}

\* the values Math.random() * 1000 can take in the backoff after the attempt of r
JittersNow(r) == IF script = Undef THEN Jitters ELSE {Val(script).jitter}

\* variant: only a GET is retried
CallCaught_OnlyGetRetried(r, error, jitter) ==
    LET e == RequestCatch(error) IN
    IF r.attempt = r.maxRetries \/ ~isRetryable(e) \/ r.method # "GET"
    THEN [r EXCEPT !.lastError = e, !.pc = "thrown", !.thrown = Some(e)]
    ELSE [r EXCEPT !.lastError = e, !.pc = "sleeping", !.sleepCount = @ + 1,
                   !.sleep = Some(_getRetryDelay(r.attempt, e, jitter))]

\* the catch block of _request in call record r, entered with the value _makeRequest threw
CallCaught(r, error, jitter) ==
    LET e == RequestCatch(error) IN
    IF r.attempt = r.maxRetries \/ ~isRetryable(e)
    THEN [r EXCEPT !.lastError = e, !.pc = "thrown", !.thrown = Some(e)]
    ELSE [r EXCEPT !.lastError = e, !.pc = "sleeping", !.sleepCount = @ + 1,
                   !.sleep = Some(_getRetryDelay(r.attempt, e, jitter))]

\* call c: loop condition true; new AbortController, setTimeout, fetch
CallStartAttempt(c) ==
    LET r == calls[c]
        ctrl == newController(c, r.attempt)
        tid == <<c, r.attempt>>
    IN  /\ r.pc = "loop"
        /\ r.attempt <= r.maxRetries
        /\ timers' = [timers EXCEPT ![tid] =
                         [state |-> "pending", controller |-> ctrl, owner |-> c]]
        /\ calls' = [calls EXCEPT ![c] =
                        [r EXCEPT !.pc = "fetching", !.controller = Some(ctrl),
                                  !.timeoutId = Some(tid), !.fetchCount = @ + 1]]
        /\ actor' = c
        /\ UNCHANGED <<single, signals>>

\* call c: loop condition false: throw lastError
CallLoopExit(c) ==
    LET r == calls[c]
    IN  /\ r.pc = "loop"
        /\ r.attempt > r.maxRetries
        /\ calls' = [calls EXCEPT ![c] = [r EXCEPT !.pc = "thrown", !.thrown = Some(r.lastError)]]
        /\ actor' = c
        /\ UNCHANGED <<single, signals, timers>>

\* the callback of timer t runs: the controller its closure holds is aborted
CallTimerFires(t) ==
    /\ timers[t].state = "pending"
    /\ IF script = Undef THEN TRUE ELSE Val(script).steps[t[2]].fires
    /\ timers' = [timers EXCEPT ![t].state = "fired"]
    /\ signals' = signals \cup {timers[t].controller}
    /\ actor' = timers[t].owner
    /\ UNCHANGED <<single, calls>>

\* call c: fetch resolves with a response; clearTimeout(timeoutId)
CallTransportReturns(c) ==
    LET r == calls[c]
    IN  /\ r.pc = "fetching"
        /\ \E resp \in ResponsesNow(r) :
             calls' = [calls EXCEPT ![c] = [r EXCEPT !.pc = "handling", !.response = Some(resp)]]
        /\ timers' = [timers EXCEPT ![Val(r.timeoutId)].state = clearTimeout(@)]
        /\ actor' = c
        /\ UNCHANGED <<single, signals>>

\* call c: fetch rejects; the catch block of _makeRequest clears the timer and classifies
CallTransportRejects(c) ==
    LET r == calls[c]
    IN  /\ r.pc = "fetching"
        /\ \E err \in RejectionsNow(r), jitter \in JittersNow(r) :
             calls' = [calls EXCEPT ![c] = CallCaught(r, MakeRequestCatch(err), jitter)]
        /\ timers' = [timers EXCEPT ![Val(r.timeoutId)].state = clearTimeout(@)]
        /\ actor' = c
        /\ UNCHANGED <<single, signals>>

\* call c: _handleResponse settles
CallHandleResponse(c) ==
    LET r == calls[c]
        resp == Val(r.response)
    IN  /\ r.pc = "handling"
        /\ IF HandleThrows(resp)
           THEN \E jitter \in JittersNow(r) :
                  calls' = [calls EXCEPT ![c] =
                               CallCaught(r, MakeRequestCatch(HandleThrown(resp)), jitter)]
           ELSE calls' = [calls EXCEPT ![c] =
                             [r EXCEPT !.pc = "returned", !.result = Some(HandleValue(resp))]]
        /\ actor' = c
        /\ UNCHANGED <<single, signals, timers>>

\* call c: the timer of _sleep fires; attempt++
CallSleepDone(c) ==
    LET r == calls[c]
    IN  /\ r.pc = "sleeping"
        /\ calls' = [calls EXCEPT ![c] =
                        [r EXCEPT !.pc = "loop", !.attempt = @ + 1, !.sleep = Undef,
                                  !.response = Undef]]
        /\ actor' = c
        /\ UNCHANGED <<single, signals, timers>>

NextConcurrent ==
    \/ \E c \in CallIds : CallStartAttempt(c)
    \/ \E c \in CallIds : CallLoopExit(c)
    \/ \E t \in AttemptIds : CallTimerFires(t)
    \/ \E c \in CallIds : CallTransportReturns(c)
    \/ \E c \in CallIds : CallTransportRejects(c)
    \/ \E c \in CallIds : CallHandleResponse(c)
    \/ \E c \in CallIds : CallSleepDone(c)

SpecConcurrent == InitConcurrent /\ [][NextConcurrent]_vars

----------------------------------------------------------------------------
(* Two calls that differ only in their method, given the same transport       *)
(* outcomes: in attempt n of either call the transport, the timer and the     *)
(* jitter do what entry n of one script says.                                 *)

Methods == {"GET", "POST", "DELETE"}

\* what can happen in one attempt: the timer fires or not before the transport settles,
\* and the transport returns a response or rejects
ScriptEntries ==
    {[fires |-> f, returns |-> TRUE, response |-> resp, rejection |-> AbortError] :
        f \in BOOLEAN, resp \in ConcResponses}
    \cup {[fires |-> f, returns |-> FALSE, response |-> CHOOSE resp \in ConcResponses : TRUE,
           rejection |-> err] : f \in BOOLEAN, err \in Rejections}
    \cup {[fires |-> TRUE, returns |-> FALSE,
           response |-> CHOOSE resp \in ConcResponses : TRUE, rejection |-> AbortError]}

\* scripts for a call of budget b: the entries of attempts the call cannot make are fixed,
\* and the backoffs of the call draw the same jitter
ScriptsFor(b) ==
    {[jitter |-> j, steps |-> s] :
        j \in (IF b > 0 THEN Jitters ELSE {0}),
        s \in {s \in [0..MaxConcBudget -> ScriptEntries] :
                  \A n \in 0..MaxConcBudget :
                      n > b => s[n] = CHOOSE e \in ScriptEntries : TRUE}}

InitTwin ==
    /\ clientMaxRetries = DefaultMaxRetries
    /\ clientTimeout = DefaultTimeout
    /\ optionsRetries = Undef
    /\ optionsTimeout = Undef
    /\ buildThrows = FALSE
    /\ pc = "loop"
    /\ attempt = 0
    /\ lastError = NullValue
    /\ timer = "none"
    /\ timerDelay = Undef
    /\ aborted = FALSE
    /\ response = Undef
    /\ rejection = Undef
    /\ classified = Undef
    /\ result = Undef
    /\ thrown = Undef
    /\ fetchCount = 0
    /\ sleepCount = 0
    /\ sleep = Undef
    /\ hist = {}
    /\ DirectClient
    /\ OneRequest
    /\ \E b \in (-1)..MaxConcBudget, m \in Methods \ {"GET"} :
          /\ calls = [c \in CallIds |->
                         [NewCall(b) EXCEPT !.method = IF c = 1 THEN "GET" ELSE m]]
          /\ script \in {Some(s) : s \in ScriptsFor(b)}
    /\ signals = {}
    /\ timers = [t \in AttemptIds |-> [state |-> "unset", controller |-> <<0, 0>>, owner |-> 0]]
    /\ actor = 0

SpecTwin == InitTwin /\ [][NextConcurrent]_vars

----------------------------------------------------------------------------
(* The methods of an error value on their own: isRetryable and getRetryDelay  *)
(* applied to any AgentGoError the constructor can build.                     *)

ConstructedErrors ==
    {AgentGoError(t, <<"Test message">>, st, dt, ra) :
        t \in ErrorTypes, st \in {Undef, Some(429), Some(500)},
        dt \in {Undef, Some("field")}, ra \in RetryAfterValues}

InitError ==
    /\ clientMaxRetries = DefaultMaxRetries
    /\ clientTimeout = DefaultTimeout
    /\ optionsRetries = Undef
    /\ optionsTimeout = Undef
    /\ buildThrows = FALSE
    /\ pc = "constructed"
    /\ attempt = 0
    /\ lastError \in ConstructedErrors
    /\ timer = "none"
    /\ timerDelay = Undef
    /\ aborted = FALSE
    /\ response = Undef
    /\ rejection = Undef
    /\ classified = Undef
    /\ result = Undef
    /\ thrown = Undef
    /\ fetchCount = 0
    /\ sleepCount = 0
    /\ sleep = Undef
    /\ hist = {}
    /\ DirectClient
    /\ OneRequest
    /\ NoCalls

\* error.isRetryable()
CallIsRetryable ==
    /\ pc = "constructed"
    /\ result' = Some(isRetryable(lastError))
    /\ pc' = "isRetryable"
    /\ UNCHANGED <<inputs, concurrent, sdk, url, sent, timerDelay, attempt, lastError, timer, aborted, response, rejection,
                   classified, thrown, fetchCount, sleepCount, sleep, hist>>

\* error.getRetryDelay()
CallGetRetryDelay ==
    /\ pc = "constructed"
    /\ result' = Some(getRetryDelay(lastError))
    /\ pc' = "getRetryDelay"
    /\ UNCHANGED <<inputs, concurrent, sdk, url, sent, timerDelay, attempt, lastError, timer, aborted, response, rejection,
                   classified, thrown, fetchCount, sleepCount, sleep, hist>>

NextError == CallIsRetryable \/ CallGetRetryDelay

SpecError == InitError /\ [][NextError]_vars

----------------------------------------------------------------------------
(* The URL builder on its own: _buildURL applied to any path and any query    *)
(* object of at most MaxParams properties.                                    *)

QueryKeys == {"limit", "offset", "status"}

QueryValues ==
    {JSUndefined, JSBoolean(FALSE), JSBoolean(TRUE), JSNumber(0), JSNumber(20),
     JSString(""), JSString("a b")}

\* the entries of an object: its keys are distinct
QueryObjects ==
    {q \in UNION {[1..n -> [key : QueryKeys, value : QueryValues]] : n \in 0..MaxParams} :
        \A i, j \in DOMAIN q : q[i].key = q[j].key => i = j}

Paths == {SessionsPath, <<"api/v1/sessions">>}

InitURL ==
    /\ clientMaxRetries = DefaultMaxRetries
    /\ clientTimeout = DefaultTimeout
    /\ optionsRetries = Undef
    /\ optionsTimeout = Undef
    /\ buildThrows = FALSE
    /\ pc = "building"
    /\ attempt = 0
    /\ lastError = NullValue
    /\ timer = "none"
    /\ timerDelay = Undef
    /\ aborted = FALSE
    /\ response = Undef
    /\ rejection = Undef
    /\ classified = Undef
    /\ result = Undef
    /\ thrown = Undef
    /\ fetchCount = 0
    /\ sleepCount = 0
    /\ sleep = Undef
    /\ hist = {}
    /\ DirectClient
    /\ path \in Paths
    /\ query \in {Undef} \cup {Some(q) : q \in QueryObjects}
    /\ GetRequest
    /\ NoRequestYet
    /\ NoCalls

\* const url = this._buildURL(path, options.query)
BuildURL ==
    /\ pc = "building"
    /\ url' = Some(_buildURL(path, query))
    /\ pc' = "built"
    /\ UNCHANGED <<inputs, concurrent, sdk, sent, timerDelay, attempt, lastError, timer, aborted, response, rejection,
                   classified, result, thrown, fetchCount, sleepCount, sleep, hist>>

NextURL == BuildURL

SpecURL == InitURL /\ [][NextURL]_vars

----------------------------------------------------------------------------
(* A client from its construction on: the constructor, then calls one after   *)
(* another, with getConfig and writes to the returned object at any moment.   *)

CustomOptions ==
    [baseURL |-> Some("https://api.example.com"), timeout |-> Some(50),
     maxRetries |-> Some(1),
     defaultHeaders |-> Some([k \in {"User-Agent", "X-Custom"} |-> "custom"])]

NoOptions ==
    [baseURL |-> Undef, timeout |-> Undef, maxRetries |-> Undef, defaultHeaders |-> Undef]

\* options that give the client no retry budget at all
NegativeBudget == [NoOptions EXCEPT !.maxRetries = Some(-1)]

ApiKeys == {Undef, Some(""), Some("test-key")}

CtorArgs ==
    {[options |-> [apiKey |-> k, baseURL |-> o.baseURL, timeout |-> o.timeout,
                   maxRetries |-> o.maxRetries, defaultHeaders |-> o.defaultHeaders],
      env |-> e] :
        k \in ApiKeys, o \in {NoOptions, CustomOptions, NegativeBudget},
        e \in {Undef, Some(""), Some("env-test-key")}}

InitClient ==
    /\ clientMaxRetries = Undef
    /\ clientTimeout = Undef
    /\ optionsRetries = Undef
    /\ optionsTimeout = Undef
    /\ buildThrows \in BOOLEAN
    /\ pc = "constructing"
    /\ attempt = 0
    /\ lastError = NullValue
    /\ timer = "none"
    /\ timerDelay = Undef
    /\ aborted = FALSE
    /\ response = Undef
    /\ rejection = Undef
    /\ classified = Undef
    /\ result = Undef
    /\ thrown = Undef
    /\ fetchCount = 0
    /\ sleepCount = 0
    /\ sleep = Undef
    /\ hist = {}
    /\ ctor \in CtorArgs
    /\ client = Undef
    /\ ctorThrown = Undef
    /\ config = Undef
    /\ sessionCall = Undef
    /\ sessionOutcome = Undef
    /\ earlier = {}
    /\ OneRequest
    /\ NoCalls

\* the locals of a call and the observations made of it
call == <<attempt, lastError, timer, timerDelay, aborted, response, rejection, classified,
          result, thrown, fetchCount, sleepCount, sleep, hist, url, sent>>

\* new AgentGoClient(options): throws without an API key, else sets the private fields
Construct ==
    /\ pc = "constructing"
    /\ IF ConstructorThrows(ctor)
       THEN /\ ctorThrown' = Some(ApiKeyRequired)
            /\ pc' = "constructThrown"
            /\ UNCHANGED <<client, clientTimeout, clientMaxRetries>>
       ELSE /\ client' = Some(ClientOf(ctor))
            /\ clientTimeout' = timeoutOf(ctor)
            /\ clientMaxRetries' = maxRetriesOf(ctor)
            /\ pc' = "loop"
            /\ UNCHANGED ctorThrown
    /\ UNCHANGED <<optionsRetries, optionsTimeout, buildThrows, path, query, method,
                   optionsHeaders, optionsBody, concurrent, call, ctor, config, sessionCall,
                   sessionOutcome, earlier>>

\* a caller calls getConfig() and keeps the object
GetConfig ==
    /\ client # Undef
    /\ config' = Some([object |-> getConfig, writeRejected |-> FALSE])
    /\ UNCHANGED <<inputs, concurrent, pc, call, ctor, client, ctorThrown, sessionCall,
                   sessionOutcome, earlier>>

\* a caller assigns to a property of the object: refused when the object is frozen
WriteConfig ==
    /\ config # Undef
    /\ \E f \in {"baseURL", "timeout", "maxRetries"} :
         LET o == Val(config).object
             v == IF f = "baseURL" THEN "https://other.example.com" ELSE 0
         IN  config' = IF o.frozen
                       THEN Some([object |-> o, writeRejected |-> TRUE])
                       ELSE Some([object |-> [o EXCEPT ![f] = v], writeRejected |-> FALSE])
    /\ UNCHANGED <<inputs, concurrent, pc, call, ctor, client, ctorThrown, sessionCall,
                   sessionOutcome, earlier>>

\* variant: the attempt counter is kept on the client and goes on from the last call
EnterRequest_AttemptKept ==
    /\ pc' = "loop"
    /\ attempt' = attempt
    /\ lastError' = NullValue
    /\ timer' = "none"
    /\ timerDelay' = Undef
    /\ aborted' = FALSE
    /\ response' = Undef
    /\ rejection' = Undef
    /\ classified' = Undef
    /\ result' = Undef
    /\ thrown' = Undef
    /\ fetchCount' = 0
    /\ sleepCount' = 0
    /\ sleep' = Undef
    /\ hist' = {}
    /\ url' = Undef
    /\ sent' = <<>>

\* entry of _request: let lastError = null and attempt = 0 are locals of the new call, and
\* no attempt of it has been made
EnterRequest ==
    /\ pc' = "loop"
    /\ attempt' = 0
    /\ lastError' = NullValue
    /\ timer' = "none"
    /\ timerDelay' = Undef
    /\ aborted' = FALSE
    /\ response' = Undef
    /\ rejection' = Undef
    /\ classified' = Undef
    /\ result' = Undef
    /\ thrown' = Undef
    /\ fetchCount' = 0
    /\ sleepCount' = 0
    /\ sleep' = Undef
    /\ hist' = {}
    /\ url' = Undef
    /\ sent' = <<>>

\* the call has settled and the caller makes the next one on the same client
ExecuteAgain ==
    /\ pc \in {"returned", "thrown"}
    /\ EnterRequest
    /\ UNCHANGED <<inputs, concurrent, sdk>>

NextClient ==
    \/ Construct
    \/ GetConfig
    \/ WriteConfig
    \/ ExecuteAgain
    \/ Next

SpecClient == InitClient /\ [][NextClient]_vars

----------------------------------------------------------------------------
(* Calls made one after another on one client, with a record of how the       *)
(* earlier ones went.                                                         *)

\* how the call that has just settled went
HowItWent ==
    {IF pc = "returned" THEN "succeeded" ELSE "failed"}
    \cup (IF sleepCount > 0 THEN {"retried"} ELSE {})
    \cup (IF InstanceOfAgentGoError(lastError) /\ lastError.type = "TIMEOUT_ERROR"
          THEN {"timed out"} ELSE {})

InitCalls ==
    /\ clientMaxRetries \in {-1, 1}
    /\ clientTimeout = DefaultTimeout
    /\ optionsRetries = Undef
    /\ optionsTimeout = Undef
    /\ buildThrows \in BOOLEAN
    /\ pc = "loop"
    /\ attempt = 0
    /\ lastError = NullValue
    /\ timer = "none"
    /\ timerDelay = Undef
    /\ aborted = FALSE
    /\ response = Undef
    /\ rejection = Undef
    /\ classified = Undef
    /\ result = Undef
    /\ thrown = Undef
    /\ fetchCount = 0
    /\ sleepCount = 0
    /\ sleep = Undef
    /\ hist = {}
    /\ DirectClient
    /\ OneRequest
    /\ NoCalls

\* the call has settled and the caller makes the same call again on the same client
ExecuteNext ==
    /\ pc \in {"returned", "thrown"}
    /\ EnterRequest
    /\ earlier' = earlier \cup HowItWent
    /\ UNCHANGED <<inputs, concurrent, ctor, client, ctorThrown, config, sessionCall,
                   sessionOutcome>>

NextCalls ==
    \/ ExecuteNext
    \/ Next

SpecCalls == InitCalls /\ [][NextCalls]_vars

----------------------------------------------------------------------------
(* The Sessions resource: retrieve, getConnection and isActive, each running  *)
(* one call of the client.                                                    *)

\* variant: the empty string is accepted as a value
IsMissing_EmptyAccepted(value) == value.t \in {"undefined", "null"}

\* params[key] === undefined || params[key] === null || params[key] === ''
IsMissing(value) == value.t \in {"undefined", "null"} \/ value = JSString("")

\* _validateRequired(params, required): the error it throws, <<>> when it throws nothing;
\* params maps keys to values, required is a sequence of keys
_validateRequired(params, required) ==
    LET missing == SelectSeq(required, LAMBDA key : IsMissing(params[key]))
    IN  IF Len(missing) > 0
        THEN Some(PlainError("Error", <<"Missing required parameters: ">> \o missing))
        ELSE Undef

\* encodeURIComponent(sessionId)
encodeURIComponent(s) == IF s = "session with@chars" THEN "session%20with%40chars" ELSE s

\* how a Sessions method settles: resolved with a boolean or a session, or rejected
Resolved(flag, session) ==
    [kind |-> "resolved", flag |-> flag, session |-> session, error |-> NullValue]

Rejected(error) ==
    [kind |-> "rejected", flag |-> FALSE, session |-> NoPayload, error |-> error]

\* the properties id and status of the value _request resolved with; a text has neither
SessionOf(value) == IF value.kind = "json" THEN value.data ELSE NoPayload

\* variant: any session that could be retrieved counts as active
isRunning_AnyStatus(value) == TRUE

\* session.status === 'RUNNING'
isRunning(value) == SessionOf(value).status = "RUNNING"

SessionIds == {JSUndefined, JSNull, JSString(""), JSString("session-123")}

SessionMethods == {"retrieve", "getConnection", "isActive"}

InitSessions ==
    /\ clientMaxRetries \in {-1, 0, 1}
    /\ clientTimeout = DefaultTimeout
    /\ optionsRetries = Undef
    /\ optionsTimeout = Undef
    /\ buildThrows \in BOOLEAN
    /\ pc = "called"
    /\ attempt = 0
    /\ lastError = NullValue
    /\ timer = "none"
    /\ timerDelay = Undef
    /\ aborted = FALSE
    /\ response = Undef
    /\ rejection = Undef
    /\ classified = Undef
    /\ result = Undef
    /\ thrown = Undef
    /\ fetchCount = 0
    /\ sleepCount = 0
    /\ sleep = Undef
    /\ hist = {}
    /\ BuiltClient
    /\ sessionCall \in {Some([method |-> m, sessionId |-> id]) :
                           m \in SessionMethods, id \in SessionIds}
    /\ sessionOutcome = Undef
    /\ path = <<>>
    /\ query = Undef
    /\ GetRequest
    /\ NoRequestYet
    /\ NoCalls

\* retrieve(sessionId) up to its call of the client: _validateRequired, then _get with the
\* path of the session; isActive catches what retrieve throws, getConnection does not
SessionsCall ==
    /\ pc = "called"
    /\ LET called == Val(sessionCall).method
           sessionId == Val(sessionCall).sessionId
           invalid == _validateRequired([k \in {"sessionId"} |-> sessionId], <<"sessionId">>)
       IN  IF IsDef(invalid)
           THEN /\ sessionOutcome' = Some(IF called = "isActive"
                                          THEN Resolved(FALSE, NoPayload)
                                          ELSE Rejected(Val(invalid)))
                /\ pc' = "settled"
                /\ UNCHANGED path
           ELSE /\ path' = <<"/", "api/v1/sessions/", encodeURIComponent(sessionId.s)>>
                /\ pc' = "loop"
                /\ UNCHANGED sessionOutcome
    /\ UNCHANGED <<clientMaxRetries, clientTimeout, optionsRetries, optionsTimeout, buildThrows,
                   query, method, optionsHeaders, optionsBody, concurrent, call, ctor, client,
                   ctorThrown, config, sessionCall, earlier>>

\* the call of the client has settled: retrieve passes the outcome on, getConnection picks
\* the properties of the session, isActive compares the status and catches every failure
SessionsSettle ==
    /\ pc \in {"returned", "thrown"}
    /\ sessionCall # Undef
    /\ LET called == Val(sessionCall).method
       IN  sessionOutcome' =
               Some(CASE called = "isActive" /\ pc = "returned" ->
                             Resolved(isRunning(Val(result)), NoPayload)
                      [] called = "isActive" /\ pc = "thrown" -> Resolved(FALSE, NoPayload)
                      [] called # "isActive" /\ pc = "returned" ->
                             Resolved(FALSE, SessionOf(Val(result)))
                      [] called # "isActive" /\ pc = "thrown" -> Rejected(Val(thrown)))
    /\ pc' = "settled"
    /\ UNCHANGED <<inputs, concurrent, call, ctor, client, ctorThrown, config, sessionCall,
                   earlier>>

NextSessions ==
    \/ SessionsCall
    \/ SessionsSettle
    \/ Next

SpecSessions == InitSessions /\ [][NextSessions]_vars

----------------------------------------------------------------------------
(* Properties *)

\* the retry budget B of the call: options.retries if defined (0 included), else maxRetries
Budget == IF optionsRetries = <<>> THEN clientMaxRetries ELSE optionsRetries[1]

\* the body of the response of the running attempt names an error kind
BodyNamesKind(resp) == resp.isJson /\ resp.decodeOK /\ resp.body.error # ""

\* the kind the classifier gives the response: the body's kind, else the status table's
ClassifierKind(resp) == IF BodyNamesKind(resp) THEN resp.body.error ELSE StatusType(resp.status)

\* C1: when every answer of the transport is a response whose classification is
\* non-retryable, the call invokes the transport exactly once, never sleeps, and throws,
\* whatever the retry budget.
C1_NonRetryableThrowsAfterOneAttempt ==
    hist = {"nonretryable"} => (pc = "thrown" /\ fetchCount = 1 /\ sleepCount = 0)

\* C2: when the last attempt received a failure-status response, the error the call throws
\* is the error value the classifier built for that response: kind from the body or else
\* from the status table, status equal to the HTTP status, the body's retryAfter carried.
C2_ThrowsClassifiedError ==
    (pc = "thrown" /\ IsDef(response) /\ ~Ok(Val(response))) =>
        LET resp == Val(response)
            e == Val(thrown)
        IN  /\ e.cls = "AgentGoError"
            /\ e = Val(classified)
            /\ e.type = ClassifierKind(resp)
            /\ e.status = Some(resp.status)
            /\ e.retryAfter = (IF BodyNamesKind(resp) THEN resp.body.retryAfter ELSE Undef)

C4_RetryableExhaustsBudget ==
    /\ fetchCount <= (IF Budget >= 0 THEN Budget + 1 ELSE 0)
    /\ (pc = "thrown" /\ hist = {"retryable"}) =>
          /\ fetchCount = Budget + 1
          /\ Val(thrown).cls = "AgentGoError"
          /\ IF IsDef(response) THEN Val(thrown) = Val(classified)
             ELSE Val(thrown).type = (IF Val(rejection).name = "AbortError"
                                      THEN "TIMEOUT_ERROR" ELSE "NETWORK_ERROR")

\* C5: when attempts 1..k fail and attempt k+1 succeeds (k <= B), the call returns the decoded
\* payload of attempt k+1 after exactly k+1 transport invocations and exactly k sleeps, and
\* nothing of the call runs after the success.
C5_SuccessAfterRetries ==
    pc = "returned" =>
        /\ attempt <= Budget
        /\ fetchCount = attempt + 1
        /\ sleepCount = attempt
        /\ IsDef(response) /\ Ok(Val(response))
        /\ result = <<[kind |-> IF Val(response).isJson THEN "json" ELSE "text",
                       data |-> Val(response).payload]>>
        /\ thrown = <<>>
        /\ ~ENABLED Next

\* C5 witness: two retryable failures, then a success on the third attempt with budget 3
C5_Witness ==
    /\ pc = "returned"
    /\ Budget = 3
    /\ hist = {"retryable"}
    /\ fetchCount = 3
    /\ sleepCount = 2
    /\ Val(result).data.id = "session-123"

\* C6 (as claimed): every backoff sleep after 0-based attempt n with error e lasts d with
\* base*2^n <= d <= base*2^n + 1000, base = e.getRetryDelay().
C6_DelayWithinJitterWindow ==
    pc = "sleeping" =>
        LET exp == getRetryDelay(lastError) * Pow2(attempt)
        IN  exp <= Val(sleep).ms /\ Val(sleep).ms <= exp + 1000

\* C6 (amended): every backoff sleep after 0-based attempt n with error e lasts
\* d = min(base*2^n + jitter, 60000) with 0 <= jitter < 1000, so
\* min(base*2^n, 60000) <= d <= min(base*2^n + 1000, 60000).
C6_DelayWithinClampedWindow ==
    pc = "sleeping" =>
        LET exp == getRetryDelay(lastError) * Pow2(attempt)
            d == Val(sleep).ms
        IN  /\ Val(sleep).n = attempt
            /\ (IF exp <= 60000 THEN exp ELSE 60000) <= d
            /\ d <= (IF exp + 1000 <= 60000 THEN exp + 1000 ELSE 60000)
            /\ \E j \in 0..999 : d = (IF exp + j <= 60000 THEN exp + j ELSE 60000)

\* C6 witness: a sleep whose exponential term exceeds 60000 and is clamped
C6_Witness ==
    /\ pc = "sleeping"
    /\ getRetryDelay(lastError) * Pow2(attempt) > 60000
    /\ Val(sleep).ms = 60000
    /\ fetchCount = attempt + 1

\* C7: every backoff delay is at most 60000 ms, for every attempt index, error kind and
\* retryAfter value.
C7_DelayAtMostSixtySeconds ==
    pc = "sleeping" => Val(sleep).ms <= 60000

\* C7 witness: a delay whose unclamped value base*2^n + jitter exceeds 60000
C7_Witness ==
    /\ pc = "sleeping"
    /\ attempt = MaxBudget
    /\ lastError.type = "RATE_LIMIT_EXCEEDED"
    /\ IsDef(lastError.retryAfter) /\ Val(lastError.retryAfter) = MaxRetryAfter
    /\ Val(sleep).ms = 60000

\* C8: the sleep that follows an HTTP 429 response uses base delay retryAfter*1000 if the
\* body carried retryAfter, else 60000, so it is never shorter than min(that base, 60000).
C8_RateLimitBaseDelay ==
    (pc = "sleeping" /\ IsDef(response) /\ Val(response).status = 429) =>
        LET resp == Val(response)
            base == IF resp.isJson /\ resp.decodeOK /\ IsDef(resp.body.retryAfter)
                    THEN Val(resp.body.retryAfter) * 1000 ELSE 60000
        IN  /\ getRetryDelay(lastError) = base
            /\ Val(sleep).ms >= (IF base <= 60000 THEN base ELSE 60000)

\* C9: every failure outcome of the call is an AgentGoError, whatever the transport did and
\* whatever failed while building the request.
C9_EveryFailureIsAgentGoError ==
    pc = "thrown" => Val(thrown).cls = "AgentGoError"

\* C10: an attempt is classified NETWORK_ERROR or TIMEOUT_ERROR only when the transport call
\* threw or was aborted; after a received response the attempt's error kind is one of the six
\* response kinds.
C10_TransportKindsOnlyFromTransport ==
    (pc \in {"sleeping", "thrown"} /\ (IsDef(response) \/ IsDef(rejection))) =>
        /\ lastError.type \in {"NETWORK_ERROR", "TIMEOUT_ERROR"} => IsDef(rejection)
        /\ IsDef(response) =>
              lastError.type \in {"INVALID_REQUEST", "UNAUTHORIZED", "SESSION_NOT_FOUND",
                                  "RATE_LIMIT_EXCEEDED", "INTERNAL_SERVER_ERROR", "UNKNOWN_ERROR"}

\* the eight kinds of the taxonomy
EightKinds == {"INVALID_REQUEST", "UNAUTHORIZED", "SESSION_NOT_FOUND", "RATE_LIMIT_EXCEEDED",
               "INTERNAL_SERVER_ERROR", "NETWORK_ERROR", "TIMEOUT_ERROR", "UNKNOWN_ERROR"}

\* the statuses the status table maps
MappedStatuses == {400, 401, 404, 429, 500, 502, 503, 504}

\* C11: every error value the classifier produces has one of the eight kinds; a body naming
\* an unrecognized kind, and an unmapped status without a body kind, give UNKNOWN_ERROR,
\* which is not retryable.
C11_KindAlwaysOneOfEight ==
    pc = "classified" =>
        LET resp == Val(response)
            e == Val(classified)
        IN  /\ e.type \in EightKinds
            /\ (BodyNamesKind(resp) /\ resp.body.error \notin EightKinds) =>
                   (e.type = "UNKNOWN_ERROR" /\ ~isRetryable(e))
            /\ (~BodyNamesKind(resp) /\ resp.status \notin MappedStatuses) =>
                   (e.type = "UNKNOWN_ERROR" /\ ~isRetryable(e))

\* C12: each attempt arms exactly one timeout timer, together with its transport call; on
\* every exit path of the attempt the timer is cleared (or has fired) before the outcome
\* reaches the retry loop, so no timer is pending outside a running transport call, and the
\* signal of a newly started attempt is not aborted.
C12_TimerClearedOnEveryExit ==
    /\ [](/\ pc = "fetching" => timer \in {"pending", "fired"}
          /\ pc # "fetching" => timer # "pending"
          /\ aborted => timer = "fired"
          /\ timer = "pending" => ~aborted)
    /\ [][(timer' = "pending" /\ timer' # timer) <=> (fetchCount' = fetchCount + 1)]_vars

\* C12 witness: the timer of an attempt fired, the attempt ended as a timeout, and the call
\* sleeps before the next attempt with no timer pending
C12_Witness ==
    /\ pc = "sleeping"
    /\ timer = "fired"
    /\ lastError.type = "TIMEOUT_ERROR"
    /\ attempt = 1

\* the effective timeout of the call: options.timeout if defined, else the client default
EffectiveTimeout == IF optionsTimeout = <<>> THEN clientTimeout ELSE optionsTimeout[1]

\* the attempt of the call that ran last has ended
AttemptEnded == pc \in {"sleeping", "thrown", "returned"}

\* C13 (as claimed): an attempt whose timer fired before the transport settled is classified
\* TIMEOUT_ERROR, with a message naming the timeout and no status, and is retried while
\* budget remains.
C13_TimerFiredMeansTimeout ==
    (AttemptEnded /\ timer = "fired") =>
        /\ pc # "returned"
        /\ lastError.type = "TIMEOUT_ERROR"
        /\ lastError.message = <<"Request timed out after ", ToString(EffectiveTimeout), "ms">>
        /\ lastError.status = <<>>
        /\ attempt < Budget => pc = "sleeping"

\* C13 (amended): when the timer of an attempt has fired and the transport then rejects
\* with an AbortError, the attempt is classified TIMEOUT_ERROR, with a message naming the
\* effective timeout in ms and no status, and is retried exactly while budget remains; when
\* the transport rejects with another error after the abort, the attempt is NETWORK_ERROR.
C13_AbortErrorMeansTimeout ==
    (AttemptEnded /\ rejection # <<>>) =>
        IF rejection[1].name = "AbortError"
        THEN /\ timer = "fired"
             /\ lastError.cls = "AgentGoError"
             /\ lastError.type = "TIMEOUT_ERROR"
             /\ lastError.message =
                    <<"Request timed out after ", ToString(EffectiveTimeout), "ms">>
             /\ lastError.status = <<>>
             /\ (pc = "sleeping") <=> (attempt < Budget)
             /\ pc = "thrown" => thrown = <<lastError>>
        ELSE lastError.type = "NETWORK_ERROR"

\* C13 witness: with options.timeout = 50 the timer fired, fetch rejected with an AbortError,
\* and the call sleeps before retrying the timeout
C13_Witness ==
    /\ pc = "sleeping"
    /\ optionsTimeout = <<50>>
    /\ timer = "fired"
    /\ rejection # <<>>
    /\ rejection[1].name = "AbortError"
    /\ lastError.message = <<"Request timed out after ", "50", "ms">>

\* C14: attempts of a call are strictly ordered: a transport invocation starts only when
\* every earlier attempt has resolved and every backoff sleep has completed, so while the
\* transport call of attempt n (0-based) is in flight exactly n+1 calls were started and
\* exactly n sleeps were taken and finished; while a sleep runs no transport call is in flight.
C14_AttemptsStrictlySequential ==
    /\ [](/\ pc \in {"fetching", "handling"} =>
                (fetchCount = attempt + 1 /\ sleepCount = attempt /\ sleep = <<>>)
          /\ pc = "sleeping" =>
                (/\ sleep # <<>>
                 /\ sleepCount = attempt + 1
                 /\ timer # "pending"
                 /\ fetchCount > 0 => (fetchCount = attempt + 1
                                       /\ (response # <<>> \/ rejection # <<>>))))
    /\ [][fetchCount' # fetchCount =>
              (/\ fetchCount' = fetchCount + 1
               /\ pc = "loop"
               /\ sleep = <<>>
               /\ fetchCount = attempt
               /\ sleepCount = attempt)]_vars

\* C14 witness: the third attempt is in flight after two resolved attempts and two finished sleeps
C14_Witness ==
    /\ pc = "fetching"
    /\ attempt = 2
    /\ fetchCount = 3
    /\ sleepCount = 2
    /\ sleep = <<>>

\* the timer of the running (or last) attempt of call c
OwnTimer(c) == timers[calls[c].timeoutId[1]]

\* C15: with calls interleaved in any order, the attempt counter, last error, timer and
\* abort signal of a call belong to that call: a step of one call (its code or its timer
\* callback) changes no local of another call and aborts no other call's signal; a call's
\* signal is aborted only by its own timer, and a call times out only when its own timer fired.
C15_CallsAreIndependent ==
    /\ [](\A c \in CallIds :
            /\ (calls[c].pc = "fetching" /\ OwnTimer(c).state = "pending") =>
                   calls[c].controller[1] \notin signals
            /\ (calls[c].pc \in {"sleeping", "thrown"}
                /\ calls[c].lastError.type = "TIMEOUT_ERROR") => OwnTimer(c).state = "fired"
            /\ calls[c].pc \in {"fetching", "handling"} =>
                   calls[c].fetchCount = calls[c].attempt + 1)
    /\ [][\A c \in CallIds :
            /\ calls'[c] # calls[c] => actor' = c
            /\ (/\ calls[c].pc = "fetching"
                /\ calls[c].controller[1] \notin signals
                /\ calls[c].controller[1] \in signals') => actor' = c]_vars

\* C15 witness: the timer of call 1 fired and call 1 ended as a timeout, while call 2, started
\* before that, is still in flight with its own timer pending and its signal not aborted
C15_Witness ==
    /\ calls[1].pc = "thrown"
    /\ calls[1].lastError.type = "TIMEOUT_ERROR"
    /\ calls[2].pc = "fetching"
    /\ calls[2].attempt = 1
    /\ OwnTimer(2).state = "pending"
    /\ calls[2].controller[1] \notin signals

\* C16: isRetryable() is true exactly for RATE_LIMIT_EXCEEDED, INTERNAL_SERVER_ERROR,
\* NETWORK_ERROR and TIMEOUT_ERROR, and false for the four other kinds, whatever the status,
\* details and retryAfter of the error.
C16_RetryableExactlyFourKinds ==
    pc = "isRetryable" =>
        /\ lastError.type \in {"RATE_LIMIT_EXCEEDED", "INTERNAL_SERVER_ERROR", "NETWORK_ERROR",
                               "TIMEOUT_ERROR"} => result = <<TRUE>>
        /\ lastError.type \in {"INVALID_REQUEST", "UNAUTHORIZED", "SESSION_NOT_FOUND",
                               "UNKNOWN_ERROR"} => result = <<FALSE>>
        /\ result \in {<<TRUE>>, <<FALSE>>}

\* C16 witness: isRetryable() answered true for a TIMEOUT_ERROR carrying status, details and
\* retryAfter
C16_Witness ==
    /\ pc = "isRetryable"
    /\ lastError.type = "TIMEOUT_ERROR"
    /\ lastError.status = <<500>>
    /\ lastError.details # <<>>
    /\ lastError.retryAfter = <<30>>
    /\ result = <<TRUE>>

C18_StatusTableWithoutBody ==
    (pc = "classified" /\ ~BodyNamesKind(Val(response))) =>
        LET st == Val(response).status
            e == Val(classified)
        IN  /\ st = 400 => e.type = "INVALID_REQUEST"
            /\ st = 401 => e.type = "UNAUTHORIZED"
            /\ st = 404 => e.type = "SESSION_NOT_FOUND"
            /\ st = 429 => e.type = "RATE_LIMIT_EXCEEDED"
            /\ st \in {500, 502, 503, 504} => e.type = "INTERNAL_SERVER_ERROR"
            /\ st \notin {400, 401, 404, 429, 500, 502, 503, 504} => e.type = "UNKNOWN_ERROR"
            /\ e.status = <<st>>
            /\ e.details = <<>>
            /\ e.retryAfter = <<>>

\* C18 witness: a 504 answered without a JSON body was classified INTERNAL_SERVER_ERROR
C18_Witness ==
    /\ pc = "classified"
    /\ ~Val(response).isJson
    /\ Val(response).status = 504
    /\ Val(classified).type = "INTERNAL_SERVER_ERROR"
    /\ Val(classified).status = <<504>>

\* C19: when the body of a failure response names one of the eight kinds, the classifier
\* takes kind, message, details and retryAfter from the body and the status from the HTTP
\* response, whatever the status table says for that status; the table is used only when the
\* body names no kind.
C19_BodyKindOverridesStatusTable ==
    pc = "classified" =>
        LET resp == Val(response)
            e == Val(classified)
        IN  /\ (BodyNamesKind(resp) /\ resp.body.error \in EightKinds) =>
                   /\ e.type = resp.body.error
                   /\ e.message = resp.body.message
                   /\ e.details = resp.body.details
                   /\ e.retryAfter = resp.body.retryAfter
                   /\ e.status = <<resp.status>>
                   /\ (resp.body.error = "INVALID_REQUEST" => ~isRetryable(e))
            /\ BodyNamesKind(resp) => e.type = resp.body.error

\* C19 witness: status 500 with a body of kind INVALID_REQUEST was classified as a
\* non-retryable INVALID_REQUEST with status 500 and the body's details and retryAfter
C19_Witness ==
    /\ pc = "classified"
    /\ BodyNamesKind(Val(response))
    /\ Val(response).status = 500
    /\ Val(response).body.error = "INVALID_REQUEST"
    /\ Val(classified).type = "INVALID_REQUEST"
    /\ Val(classified).status = <<500>>
    /\ Val(classified).details = <<"apiKey">>
    /\ Val(classified).retryAfter = <<30>>
    /\ ~isRetryable(Val(classified))

\* the query parameters a URL text carries: what follows "?", read as name=value pairs
\* separated by "&" and decoded
FormDecode(s) == IF s = "a+b" THEN "a b" ELSE s

UrlParams(u) ==
    IF \E i \in DOMAIN u : u[i] = "?"
    THEN LET start == CHOOSE i \in DOMAIN u : u[i] = "?"
             rest == SubSeq(u, start + 1, Len(u))
         IN  [j \in 1..((Len(rest) + 1) \div 4) |->
                 <<FormDecode(rest[4 * j - 3]), rest[4 * j - 2], FormDecode(rest[4 * j - 1])>>]
    ELSE <<>>

\* a query entry whose value is not undefined
IsSupplied(entry) == entry.value.t # "undefined"

\* the text a supplied value is expected to appear as
SerializedAs(value) ==
    CASE value.t = "boolean" /\ value.b -> "true"
      [] value.t = "boolean" /\ ~value.b -> "false"
      [] value.t = "number" /\ value.n = 0 -> "0"
      [] value.t = "number" /\ value.n # 0 -> ToString(value.n)
      [] value.t = "string" -> value.s

\* C20: the URL built from a query contains exactly the parameters whose value is not
\* undefined, each as the string form of its value, in the order of the query's entries;
\* parameters with value false, 0 or "" are included and those with value undefined are not.
C20_QueryParamsDefinedOnlyInOrder ==
    pc = "built" =>
        LET entries == IF query = <<>> THEN <<>> ELSE query[1]
            supplied == SelectSeq(entries, IsSupplied)
            out == UrlParams(url[1])
        IN  /\ Len(out) = Len(supplied)
            /\ \A i \in DOMAIN out :
                   out[i] = <<supplied[i].key, "=", SerializedAs(supplied[i].value)>>
            /\ \A j \in DOMAIN entries :
                   /\ entries[j].value \in {JSBoolean(FALSE), JSNumber(0), JSString("")} =>
                          \E i \in DOMAIN out : out[i][1] = entries[j].key
                   /\ entries[j].value = JSUndefined =>
                          ~\E i \in DOMAIN out : out[i][1] = entries[j].key

\* C20 witness: a query with an undefined status and a limit of 0 gave a URL whose only
\* parameter is limit=0
C20_Witness ==
    /\ pc = "built"
    /\ query = <<(<<[key |-> "status", value |-> JSUndefined],
                    [key |-> "limit", value |-> JSNumber(0)]>>)>>
    /\ url = <<(<<DefaultBaseURL, "/", "api/v1/sessions", "?", "limit", "=", "0">>)>>

\* C25: a backoff sleep happens only after a failed attempt that is neither the last allowed
\* one nor non-retryable, so a finished call has slept exactly one time less than it invoked
\* the transport.
C25_SleepsAreInvocationsMinusOne ==
    /\ pc \in {"returned", "thrown"} => sleepCount = fetchCount - 1
    /\ pc = "sleeping" => (attempt < Budget /\ isRetryable(lastError))

\* the message of the value a transport rejection carries
UnderlyingMessage(error) == IF error.cls = "NonError" THEN StringOf(error) ELSE error.message

\* C26: an attempt ends as TIMEOUT_ERROR only if its own timer fired before the transport
\* settled; when the transport rejects while the timer is still pending the attempt ends as
\* NETWORK_ERROR carrying the underlying message.
C26_TimeoutOnlyAfterOwnTimerFired ==
    pc \in {"sleeping", "thrown"} =>
        /\ lastError.type = "TIMEOUT_ERROR" => (timer = "fired" /\ aborted)
        /\ (rejection # <<>> /\ timer # "fired") =>
               /\ lastError.type = "NETWORK_ERROR"
               /\ lastError.message =
                      <<"Network request failed: ">> \o UnderlyingMessage(rejection[1])

\* C26 witness: the transport rejected with a TypeError while the timer was pending, and the
\* attempt ended as NETWORK_ERROR with the TypeError's message
C26_Witness ==
    /\ pc = "sleeping"
    /\ timer = "cleared"
    /\ rejection = <<PlainError("TypeError", <<"fetch failed">>)>>
    /\ lastError.type = "NETWORK_ERROR"
    /\ lastError.message = <<"Network request failed: ", "fetch failed">>

\* C27: every attempt of a call, the first and every retry, starts a fresh timer set to the
\* full effective timeout, whatever earlier attempts and sleeps consumed; no timer is
\* pending during a backoff sleep, so no timeout can fire in one.
C27_FreshFullTimeoutPerAttempt ==
    /\ [](/\ timer = "pending" => timerDelay = <<EffectiveTimeout>>
          /\ pc = "sleeping" => (timer # "pending" /\ ~ENABLED TimerFires))
    /\ [][fetchCount' # fetchCount =>
              (/\ timer' = "pending"
               /\ ~aborted'
               /\ timerDelay' = <<EffectiveTimeout>>)]_vars

\* C27 witness: after two failed attempts and two sleeps the third attempt runs with a
\* pending timer set to the full per-request timeout of 50 ms
C27_Witness ==
    /\ pc = "fetching"
    /\ attempt = 2
    /\ sleepCount = 2
    /\ optionsTimeout = <<50>>
    /\ timer = "pending"
    /\ timerDelay = <<50>>

\* the kind the status table gives a status
TableKind(st) ==
    CASE st = 400 -> "INVALID_REQUEST"
      [] st = 401 -> "UNAUTHORIZED"
      [] st = 404 -> "SESSION_NOT_FOUND"
      [] st = 429 -> "RATE_LIMIT_EXCEEDED"
      [] st \in {500, 502, 503, 504} -> "INTERNAL_SERVER_ERROR"
      [] OTHER -> "UNKNOWN_ERROR"

\* C28: when a failure-status response has no body, a body that is not JSON, or a JSON body
\* whose parsing fails, the attempt's error has the kind the status table gives the HTTP
\* status and carries that status; the parse failure is never the attempt's error.
C28_UnreadableBodyClassifiedByStatus ==
    (/\ pc \in {"sleeping", "thrown"}
     /\ response # <<>>
     /\ ~Ok(response[1])
     /\ (~response[1].isJson \/ ~response[1].decodeOK)) =>
        /\ lastError.type = TableKind(response[1].status)
        /\ lastError.status = <<response[1].status>>

\* C29: for every retry budget, zero and negative ones included, a call that fails has
\* invoked the transport at least once and throws an AgentGoError of one of the eight kinds,
\* never null or an unset last error.
C29_FailsOnlyAfterAnAttempt ==
    pc = "thrown" =>
        /\ fetchCount >= 1
        /\ thrown # <<>>
        /\ thrown[1].cls = "AgentGoError"
        /\ thrown[1].type \in EightKinds

\* C30: a success-status response whose body cannot be decoded is not returned: the attempt
\* ends as NETWORK_ERROR, which is retryable, so the call sleeps and sends the request again
\* while budget remains, and throws the NETWORK_ERROR when none remains.
C30_DecodeFailureIsRetriedAsNetworkError ==
    (AttemptEnded /\ response # <<>> /\ Ok(response[1]) /\ ~response[1].decodeOK) =>
        /\ result = <<>>
        /\ lastError.type = "NETWORK_ERROR"
        /\ lastError.type \in {"RATE_LIMIT_EXCEEDED", "INTERNAL_SERVER_ERROR",
                               "NETWORK_ERROR", "TIMEOUT_ERROR"}
        /\ attempt < Budget => (pc = "sleeping" /\ ENABLED SleepDone)
        /\ attempt >= Budget => (pc = "thrown" /\ thrown = <<lastError>>)

\* C30 witness: the first attempt got a 200 whose body could not be decoded, the call slept,
\* and the second attempt got a 200 again whose body could not be decoded either
C30_Witness ==
    /\ pc = "sleeping"
    /\ fetchCount = 2
    /\ hist = {"decode_failure"}
    /\ response # <<>>
    /\ response[1].status = 200
    /\ ~response[1].decodeOK
    /\ lastError.type = "NETWORK_ERROR"

\* a non-empty API key is available: from options.apiKey, or from the environment variable
\* when options.apiKey is not given
KeyAvailable ==
    \/ (ctor.options.apiKey # <<>> /\ ctor.options.apiKey[1] # "")
    \/ (ctor.options.apiKey = <<>> /\ ctor.env # <<>> /\ ctor.env[1] # "")

\* the values getConfig is expected to show: those given at construction, else the defaults
ConfigAsConstructed ==
    [baseURL |-> IF ctor.options.baseURL = <<>> THEN "https://session.browsers.live"
                 ELSE ctor.options.baseURL[1],
     timeout |-> IF ctor.options.timeout = <<>> THEN 30000 ELSE ctor.options.timeout[1],
     maxRetries |-> IF ctor.options.maxRetries = <<>> THEN 3 ELSE ctor.options.maxRetries[1],
     frozen |-> TRUE]

C22_ConstructionNeedsApiKey ==
    pc # "constructing" =>
        /\ KeyAvailable <=> client # <<>>
        /\ KeyAvailable => (ctorThrown = <<>> /\ pc # "constructThrown")
        /\ ~KeyAvailable =>
               /\ pc = "constructThrown"
               /\ ctorThrown # <<>>
               /\ ctorThrown[1].cls = "AgentGoError"
               /\ ctorThrown[1].type = "UNAUTHORIZED"
               /\ fetchCount = 0
               /\ url = <<>>
               /\ ~ENABLED NextClient

\* C22 witness: options.apiKey was given as the empty string while the environment held a
\* key, and the constructor threw
C22_Witness ==
    /\ pc = "constructThrown"
    /\ ctor.options.apiKey = <<"">>
    /\ ctor.env = <<"env-test-key">>
    /\ ctorThrown # <<>>
    /\ client = <<>>

\* the sessionId of the call is empty, null or undefined
SessionIdMissing ==
    \/ sessionCall[1].sessionId.t \in {"undefined", "null"}
    \/ (sessionCall[1].sessionId.t = "string" /\ sessionCall[1].sessionId.s = "")

\* C23: retrieve and getConnection called with an empty, null or undefined sessionId reject
\* with 'Missing required parameters: sessionId' and never call the HTTP client, so the
\* transport is never invoked.
C23_MissingSessionIdRejectsWithoutCall ==
    (sessionCall[1].method \in {"retrieve", "getConnection"} /\ SessionIdMissing) =>
        /\ pc \in {"called", "settled"}
        /\ fetchCount = 0
        /\ url = <<>>
        /\ pc = "settled" =>
               /\ sessionOutcome # <<>>
               /\ sessionOutcome[1].kind = "rejected"
               /\ sessionOutcome[1].error.message =
                      <<"Missing required parameters: ", "sessionId">>
               /\ ~ENABLED NextSessions

\* C23 witness: getConnection(null) has rejected with the message, no call having started
C23_Witness ==
    /\ sessionCall[1].method = "getConnection"
    /\ sessionCall[1].sessionId = JSNull
    /\ pc = "settled"
    /\ sessionOutcome[1].kind = "rejected"
    /\ sessionOutcome[1].error.message = <<"Missing required parameters: ", "sessionId">>
    /\ fetchCount = 0

\* C24: isActive never rejects; it resolves to true exactly when retrieve succeeded with a
\* session whose status is RUNNING, and to false for any other status and for every failure
\* of retrieve: an AgentGoError of any kind, a missing sessionId, an exhausted budget.
C24_IsActiveNeverRejects ==
    (sessionCall[1].method = "isActive" /\ pc = "settled") =>
        /\ sessionOutcome # <<>>
        /\ sessionOutcome[1].kind = "resolved"
        /\ sessionOutcome[1].flag <=>
               (/\ ~SessionIdMissing
                /\ thrown = <<>>
                /\ result # <<>>
                /\ result[1].kind = "json"
                /\ result[1].data.status = "RUNNING")

\* C24 witness: retrieve failed with the budget exhausted after a retry, and isActive
\* resolved to false
C24_Witness ==
    /\ sessionCall[1].method = "isActive"
    /\ pc = "settled"
    /\ thrown # <<>>
    /\ fetchCount = 2
    /\ sessionOutcome[1].kind = "resolved"
    /\ ~sessionOutcome[1].flag

\* the text a body object is expected to be sent as
BodyText(b) ==
    IF b = CreateBody
    THEN <<"{", "\"", "region", "\"", ":", "\"", "US", "\"", ",",
           "\"", "timeout", "\"", ":", "30", "}">>
    ELSE <<"{", "}">>

\* the request a call is expected to send: its path after the base URL with the supplied
\* query parameters, its method, the client's headers overridden key by key by its own,
\* and its body as text
SameAsCallerAsked(r) ==
    LET own == IF optionsHeaders = <<>> THEN <<>> ELSE optionsHeaders[1]
        defaults == client[1].defaultHeaders
        supplied == SelectSeq(IF query = <<>> THEN <<>> ELSE query[1], IsSupplied)
        params == UrlParams(r.url)
    IN  /\ SubSeq(r.url, 1, 1 + Len(path)) = <<client[1].baseURL>> \o path
        /\ Len(params) = Len(supplied)
        /\ \A i \in DOMAIN params :
               params[i] = <<supplied[i].key, "=", SerializedAs(supplied[i].value)>>
        /\ r.method = method
        /\ DOMAIN r.headers = DOMAIN defaults \cup DOMAIN own
        /\ \A k \in DOMAIN r.headers :
               r.headers[k] = (IF k \in DOMAIN own THEN own[k] ELSE defaults[k])
        /\ r.body = (IF optionsBody = <<>> THEN <<>> ELSE <<BodyText(optionsBody[1])>>)

\* what a caller can observe of a call and what the loop of the call holds: everything but
\* the method and the identities of the controller and the timer of the running attempt
Observed(r) == [r EXCEPT !.method = "", !.controller = <<>>, !.timeoutId = <<>>]

\* C31: two calls that differ only in method and get the same transport outcomes are at
\* the same attempt with the same last error, attempt count, sleep count and sleep whenever
\* they are at the same point of the same attempt, and once both have settled they have
\* settled alike; a call with a method other than GET is sent again after a retryable failure.
C31_RetryDecisionIgnoresMethod ==
    LET a == calls[1]
        b == calls[2]
    IN  /\ a.method # b.method
        /\ a.pc = b.pc /\ a.attempt = b.attempt => Observed(a) = Observed(b)
        /\ a.pc \in {"returned", "thrown"} /\ b.pc \in {"returned", "thrown"} =>
               Observed(a) = Observed(b)
        /\ \A c \in CallIds :
               calls[c].pc = "sleeping" =>
                   ENABLED (CallSleepDone(c)) /\ calls[c].attempt < calls[c].maxRetries

\* C31 witness: a POST and a GET both failed their first attempt with a 500, slept and made a
\* second transport invocation that returned the session
C31_Witness ==
    /\ calls[1].method = "GET"
    /\ calls[2].method = "POST"
    /\ \A c \in CallIds :
           /\ calls[c].pc = "returned"
           /\ calls[c].fetchCount = 2
           /\ calls[c].sleepCount = 1
           /\ calls[c].lastError.type = "NETWORK_ERROR"

\* a call that has made no attempt yet: nothing is left of any earlier call
NothingLeftOver ==
    /\ attempt = 0
    /\ lastError.cls = "null"
    /\ fetchCount = 0
    /\ sleepCount = 0
    /\ sleep = <<>>
    /\ hist = {}
    /\ sent = <<>>
    /\ url = <<>>
    /\ timer # "pending"
    /\ ~aborted
    /\ response = <<>>
    /\ rejection = <<>>
    /\ classified = <<>>
    /\ result = <<>>
    /\ thrown = <<>>

\* C32: a call made after earlier calls on the same client, however they went, starts like
\* the first call of a fresh client: at attempt 0, with no last error, no attempt or sleep
\* counted and nothing left of the earlier calls; the calls change nothing of the client, and
\* every call makes at most budget + 1 transport invocations, whatever came before it.
C32_NoStateAcrossCalls ==
    /\ [][pc' = "loop" /\ pc \in {"returned", "thrown"} =>
              (NothingLeftOver' /\ Budget' = Budget)]_vars
    /\ [][client' = client /\ clientMaxRetries' = clientMaxRetries
           /\ clientTimeout' = clientTimeout]_vars
    /\ [](pc = "loop" /\ fetchCount = 0 /\ sleepCount = 0 =>
              /\ NothingLeftOver
              /\ Budget >= 0 => ENABLED (StartAttempt \/ BuildFails))
    /\ [](Budget >= 0 => fetchCount <= Budget + 1)

\* C32 witness: after calls that succeeded, failed, were retried and timed out, a call with
\* budget 1 failed its first attempt, slept and made its second transport invocation
C32_Witness ==
    /\ earlier = {"succeeded", "failed", "retried", "timed out"}
    /\ Budget = 1
    /\ attempt = 1
    /\ fetchCount = 2
    /\ sleepCount = 1
    /\ pc = "returned"

\* C33: every attempt of a call hands the transport the same request: one request for each
\* transport invocation, all equal to the first, which has the URL of the path and the
\* defined query parameters, the method, the client's default headers overridden key by key
\* by the per-request headers, and the serialized body; no step changes the caller's options.
C33_EveryAttemptSendsTheSameRequest ==
    /\ [](/\ Len(sent) = fetchCount
          /\ \A i \in DOMAIN sent : sent[i] = sent[1] /\ SameAsCallerAsked(sent[i]))
    /\ [][UNCHANGED <<path, query, method, optionsHeaders, optionsBody, optionsRetries,
                      optionsTimeout>>]_vars

\* C33 witness: a POST with headers and a body of its own was sent three times, and the
\* third request carries the per-request User-Agent, the client's x-api-key and the body
C33_Witness ==
    /\ method = "POST"
    /\ Len(sent) = 3
    /\ sent[3].headers["User-Agent"] = "per-request"
    /\ sent[3].headers["x-api-key"] = "test-api-key"
    /\ sent[3].body # <<>>
    /\ pc = "handling"

\* C35: while the body of a received response is read the timer of the attempt is not
\* pending and cannot fire, and the signal is not aborted from then on; an attempt whose
\* response arrived before its timer fired is never classified TIMEOUT_ERROR, whether the
\* body is read or its decoding fails.
C35_TimerClearedBeforeBodyIsRead ==
    /\ [](pc = "handling" => timer # "pending" /\ ~ENABLED TimerFires)
    /\ [][pc = "handling" => (aborted' = aborted /\ timer' = timer)]_vars
    /\ [][pc = "handling" /\ timer = "cleared" /\ pc' \in {"sleeping", "thrown"} =>
              (lastError'.cls = "AgentGoError" => lastError'.type # "TIMEOUT_ERROR")]_vars
    /\ [](pc = "handling" /\ timer = "cleared" => ~aborted)

\* C35 witness: a response arrived, its timer was cleared unfired, decoding its body failed
\* and the attempt was classified NETWORK_ERROR and is followed by a backoff
C35_Witness ==
    /\ pc = "sleeping"
    /\ response # <<>>
    /\ response[1].status = 200
    /\ ~response[1].decodeOK
    /\ timer = "cleared"
    /\ ~aborted
    /\ lastError.type = "NETWORK_ERROR"

Settled == pc \in {"returned", "thrown"}

\* the statement as written: given that the transport settles and timers fire, every call
\* settles, after at most budget + 1 attempts and budget sleeps
C34_AsWritten ==
    /\ <>Settled
    /\ [](fetchCount <= Budget + 1 /\ sleepCount <= Budget)

\* C34: given that the transport settles every call, that timers fire and that every read
\* of a response body settles, every call returns or throws, after at most budget + 1
\* transport invocations and budget sleeps (none of either for a negative budget);
\* a call that awaits the transport leaves that point only when the transport settles:
\* the firing of the timer aborts the signal and changes nothing else of the call.
C34_TerminatesIfBodyReadsSettle ==
    /\ WF_vars(HandleResponse) => <>Settled
    /\ [](/\ fetchCount <= (IF Budget >= 0 THEN Budget + 1 ELSE 0)
          /\ sleepCount <= (IF Budget >= 0 THEN Budget ELSE 0))
    /\ [](pc = "fetching" => ~ENABLED (CodeRuns \/ HandleResponse \/ SleepDone))
    /\ [][pc = "fetching" /\ response' = response /\ rejection' = rejection =>
              (/\ pc' = "fetching"
               /\ <<attempt, lastError, result, thrown, fetchCount, sleepCount>>' =
                      <<attempt, lastError, result, thrown, fetchCount, sleepCount>>)]_vars

\* C34 witness: a call with budget 2 used it up: it threw after three transport
\* invocations and two sleeps, its last attempt timed out
C34_Witness ==
    /\ Budget = 2
    /\ pc = "thrown"
    /\ fetchCount = 3
    /\ sleepCount = 2
    /\ rejection = <<AbortError>>
    /\ lastError.type = "TIMEOUT_ERROR"
====
